---- MODULE Spec2Model ----
(***************************************************************************)
(* State-machine model of the product extraction, document ingestion and   *)
(* hybrid retrieval core of rag-assistant-project.                         *)
(*                                                                         *)
(*   app/vectorstore/hybrid_retriever.py   HybridRetriever                 *)
(*   app/ingestion/multi_format_processor.py  MultiFormatProcessor         *)
(*   app/extraction/product_extractor.py   ProductExtractor                *)
(*                                                                         *)
(* Texts are TLA+ strings; scores are fixed-point numbers in thousandths   *)
(* (1000 = 1.0; a raw BM25 score of 10.0 is 10000).                        *)
(***************************************************************************)
EXTENDS Integers, Sequences, FiniteSets, TLC

VARIABLES
    collection,     \* HybridRetriever.collection: the stored entries, in insertion order
    bm25_index,     \* HybridRetriever.bm25_index: None or the tokenized corpus it was built on
    documents,      \* HybridRetriever.documents
    products,       \* HybridRetriever.products
    request,        \* arguments of the last add_products / search_products call
    backend,        \* what the embedding and BM25 backends answered during that call
    trace,          \* intermediate values of that call (semantic, lexical, candidates)
    response,       \* what the caller of that call received
    writers         \* the add_products calls running in concurrent threads: each one's
                    \* position, argument and the store contents it has read

retrieverVars == <<collection, bm25_index, documents, products, request, backend, trace, response>>

vars ==
    <<collection, bm25_index, documents, products, request, backend, trace, response,
      writers>>

\* Optional[T]: None is the empty sequence, a present value x is <<x>>
None == <<>>
Some(x) == <<x>>

(***************************************************************************)
(* Python string operations                                                *)
(***************************************************************************)
Ch(s, i) == SubSeq(s, i, i)

CharSet(cls) == {Ch(cls, i) : i \in 1..Len(cls)}

\* [a-z], [A-Z], [0-9], \s
LowerSet == CharSet("abcdefghijklmnopqrstuvwxyz")
UpperSet == CharSet("ABCDEFGHIJKLMNOPQRSTUVWXYZ")
DigitSet == CharSet("0123456789")
SpaceSet == CharSet(" \t\n\r\f")

\* the cased characters of the texts: the ASCII letters and the accented
\* letters of the extractor's keywords
LowerLetters == "abcdefghijklmnopqrstuvwxyzéèà"
UpperLetters == "ABCDEFGHIJKLMNOPQRSTUVWXYZÉÈÀ"

CasedLower == CharSet(LowerLetters)
CasedUpper == CharSet(UpperLetters)
AccentSet == (CasedLower \cup CasedUpper) \ (LowerSet \cup UpperSet)

IsDigit(c) == c \in DigitSet
IsSpace(c) == c \in SpaceSet

ToUpper == [c \in CasedLower |->
               Ch(UpperLetters, CHOOSE i \in 1..Len(LowerLetters) : Ch(LowerLetters, i) = c)]
ToLower == [c \in CasedUpper |->
               Ch(LowerLetters, CHOOSE i \in 1..Len(UpperLetters) : Ch(UpperLetters, i) = c)]

UpperChar(c) == IF c \in CasedLower THEN ToUpper[c] ELSE c
LowerChar(c) == IF c \in CasedUpper THEN ToLower[c] ELSE c

Min(a, b) == IF a <= b THEN a ELSE b

SetMin(S) == CHOOSE x \in S : \A y \in S : x <= y

SetMax(S) == CHOOSE x \in S : \A y \in S : y <= x

\* str.upper()
RECURSIVE Upper(_)
Upper(s) ==
    IF Len(s) = 0 THEN ""
    ELSE IF Len(s) = 1 THEN UpperChar(s)
    ELSE Upper(SubSeq(s, 1, Len(s) \div 2)) \o Upper(SubSeq(s, Len(s) \div 2 + 1, Len(s)))

\* str.lower()
RECURSIVE Lower(_)
Lower(s) ==
    IF Len(s) = 0 THEN ""
    ELSE IF Len(s) = 1 THEN LowerChar(s)
    ELSE Lower(SubSeq(s, 1, Len(s) \div 2)) \o Lower(SubSeq(s, Len(s) \div 2 + 1, Len(s)))

\* str.replace(a, b) for a one-character a
RECURSIVE ReplaceChar(_, _, _)
ReplaceChar(s, a, b) ==
    IF Len(s) = 0 THEN ""
    ELSE IF Len(s) = 1 THEN (IF s = a THEN b ELSE s)
    ELSE ReplaceChar(SubSeq(s, 1, Len(s) \div 2), a, b)
             \o ReplaceChar(SubSeq(s, Len(s) \div 2 + 1, Len(s)), a, b)

\* q in s
Contains(s, q) == \E i \in 0..(Len(s) - Len(q)) : SubSeq(s, i + 1, i + Len(q)) = q

\* sep.join(parts)
RECURSIVE Join(_, _)
Join(sep, parts) ==
    IF Len(parts) = 0 THEN ""
    ELSE IF Len(parts) = 1 THEN parts[1]
    ELSE Join(sep, SubSeq(parts, 1, Len(parts) \div 2)) \o sep
             \o Join(sep, SubSeq(parts, Len(parts) \div 2 + 1, Len(parts)))

\* str.strip()
Strip(s) ==
    LET kept == {i \in 1..Len(s) : ~IsSpace(Ch(s, i))}
    IN  IF kept = {} THEN "" ELSE SubSeq(s, SetMin(kept), SetMax(kept))

Range(f) == {f[x] : x \in DOMAIN f}

\* seq[:n]
Take(seq, n) == SubSeq(seq, 1, Min(n, Len(seq)))

\* the concatenation of a sequence of sequences
RECURSIVE Flatten(_)
Flatten(seqs) == IF Len(seqs) = 0 THEN <<>> ELSE Head(seqs) \o Flatten(Tail(seqs))

\* list.sort(key=Key, reverse=True): stable, descending
StableSortDesc(seq, Key(_)) ==
    LET n == Len(seq)
        rank(i) == Cardinality({j \in 1..n : \/ Key(seq[j]) > Key(seq[i])
                                             \/ Key(seq[j]) = Key(seq[i]) /\ j < i})
    IN  [k \in 1..n |-> seq[CHOOSE i \in 1..n : rank(i) = k - 1]]

\* the same, ascending
StableSortAsc(seq, Key(_)) ==
    LET n == Len(seq)
        rank(i) == Cardinality({j \in 1..n : \/ Key(seq[j]) < Key(seq[i])
                                             \/ Key(seq[j]) = Key(seq[i]) /\ j < i})
    IN  [k \in 1..n |-> seq[CHOOSE i \in 1..n : rank(i) = k - 1]]

(***************************************************************************)
(* Python re as the extractor uses it: a backtracking matcher over         *)
(* patterns written node by node.  A pattern is [nodes, ic]; ic is         *)
(* re.IGNORECASE / (?i).  A quantifier bound of None is "unbounded".       *)
(***************************************************************************)
Lit(s) == [t |-> "lit", s |-> s]
Cls(cs, min, max) == [t |-> "cls", cs |-> cs, neg |-> FALSE, min |-> min, max |-> max]
NotCls(cs, min, max) == [t |-> "cls", cs |-> cs, neg |-> TRUE, min |-> min, max |-> max]
Alt(alts) == [t |-> "alt", alts |-> alts]
Grp(n, inner) == [t |-> "grp", n |-> n, inner |-> inner]
Rep(inner, max) == [t |-> "rep", inner |-> inner, max |-> max]
WordBoundary == [t |-> "b"]
StartAnchor == [t |-> "start"]
EndAnchor == [t |-> "end"]
Words(ws) == Alt([k \in 1..Len(ws) |-> <<Lit(ws[k])>>])

Re(nodes) == [nodes |-> nodes, ic |-> FALSE]
ReI(nodes) == [nodes |-> nodes, ic |-> TRUE]

LetterSet == UpperSet \cup LowerSet
AlnumSet == LetterSet \cup DigitSet
\* \w
WordSet == AlnumSet \cup AccentSet \cup {"_"}

At(s, i) == IF i >= 1 /\ i <= Len(s) THEN Ch(s, i) ELSE ""

ClassHas(node, c, ic) ==
    (c \in node.cs \/ (ic /\ (UpperChar(c) \in node.cs \/ LowerChar(c) \in node.cs))) # node.neg

LitAt(s, i, lit, ic) ==
    /\ i + Len(lit) - 1 <= Len(s)
    /\ \A k \in 1..Len(lit) :
          \/ Ch(s, i + k - 1) = Ch(lit, k)
          \/ ic /\ LowerChar(Ch(s, i + k - 1)) = LowerChar(Ch(lit, k))

\* how many characters the greedy class takes from position i on, k of them
\* already counted; the text is scanned a window at a time
RECURSIVE RunLen(_, _, _, _, _)
RunLen(s, i, node, ic, k) ==
    LET limit == IF node.max = None THEN Len(s) - i + 1
                 ELSE Min(node.max[1], Len(s) - i + 1)
        window == Min(limit, k + 16)
        stops == {j \in k..(window - 1) : ~ClassHas(node, Ch(s, i + j), ic)}
    IN  IF stops # {} THEN SetMin(stops)
        ELSE IF window = limit THEN limit
        ELSE RunLen(s, i, node, ic, window)

NoGroups == [n \in 1..3 |-> <<0, 0>>]

\* The match of the node list at position i: None, or the end position and the
\* groups of the first alternative the backtracking search accepts.
RECURSIVE MatchSeq(_, _, _, _, _)
RECURSIVE TryLen(_, _, _, _, _, _, _)
RECURSIVE TryAlt(_, _, _, _, _, _, _)
MatchSeq(nodes, ic, s, i, g) ==
    IF Len(nodes) = 0 THEN Some([end |-> i, g |-> g])
    ELSE LET node == Head(nodes)
             rest == Tail(nodes)
         IN  CASE node.t = "lit" ->
                    IF LitAt(s, i, node.s, ic)
                    THEN MatchSeq(rest, ic, s, i + Len(node.s), g) ELSE None
               [] node.t = "cls" ->
                    TryLen(node, rest, ic, s, i, g, RunLen(s, i, node, ic, 0))
               [] node.t = "alt" -> TryAlt(node.alts, 1, rest, ic, s, i, g)
               [] node.t = "grp" ->
                    MatchSeq(<<[t |-> "open", n |-> node.n]>> \o node.inner
                                 \o <<[t |-> "close", n |-> node.n]>> \o rest, ic, s, i, g)
               [] node.t = "open" ->
                    MatchSeq(rest, ic, s, i, [g EXCEPT ![node.n] = <<i, i>>])
               [] node.t = "close" ->
                    MatchSeq(rest, ic, s, i, [g EXCEPT ![node.n] = <<@[1], i>>])
               [] node.t = "rep" ->
                    LET more == IF node.max = None THEN node
                                ELSE [node EXCEPT !.max = Some(@[1] - 1)]
                        taken == IF node.max = None \/ node.max[1] > 0
                                 THEN MatchSeq(node.inner \o <<more>> \o rest, ic, s, i, g)
                                 ELSE None
                    IN  IF taken # None THEN taken ELSE MatchSeq(rest, ic, s, i, g)
               [] node.t = "b" ->
                    IF (At(s, i - 1) \in WordSet) # (At(s, i) \in WordSet)
                    THEN MatchSeq(rest, ic, s, i, g) ELSE None
               [] node.t = "start" ->
                    IF i = 1 THEN MatchSeq(rest, ic, s, i, g) ELSE None
               [] node.t = "end" ->
                    IF i = Len(s) + 1 \/ (i = Len(s) /\ Ch(s, i) = "\n")
                    THEN MatchSeq(rest, ic, s, i, g) ELSE None

\* the class takes k characters first and gives them back one by one
TryLen(node, rest, ic, s, i, g, k) ==
    LET greedy == MatchSeq(rest, ic, s, i + k, g)
        shorter == {j \in node.min..(k - 1) : MatchSeq(rest, ic, s, i + j, g) # None}
    IN  IF k < node.min THEN None
        ELSE IF greedy # None THEN greedy
        ELSE IF shorter = {} THEN None
        ELSE MatchSeq(rest, ic, s, i + SetMax(shorter), g)

TryAlt(alts, j, rest, ic, s, i, g) ==
    IF j > Len(alts) THEN None
    ELSE LET r == MatchSeq(alts[j] \o rest, ic, s, i, g)
         IN  IF r # None THEN r ELSE TryAlt(alts, j + 1, rest, ic, s, i, g)

\* re.match(pattern, s)
ReMatch(p, s) == MatchSeq(p.nodes, p.ic, s, 1, NoGroups)

\* re.finditer(pattern, s): the non-overlapping matches, left to right; hits are
\* the positions where the pattern matches, i the position the scan resumes at
RECURSIVE FindFrom(_, _, _, _)
FindFrom(p, s, hits, i) ==
    LET Found(start, r) ==
            <<[start |-> start, end |-> r.end, g |-> r.g]>>
                \o FindFrom(p, s, hits, IF r.end > start THEN r.end ELSE start + 1)
        MatchAt(start) == Found(start, MatchSeq(p.nodes, p.ic, s, start, NoGroups)[1])
        Ahead(ahead) == IF ahead = {} THEN <<>> ELSE MatchAt(SetMin(ahead))
    IN  Ahead({j \in hits : j >= i})

FindIter(p, s) ==
    FindFrom(p, s, {j \in 1..(Len(s) + 1) : MatchSeq(p.nodes, p.ic, s, j, NoGroups) # None}, 1)

\* match.group(n)
Group(s, m, n) == SubSeq(s, m.g[n][1], m.g[n][2] - 1)

\* re.split(pattern, s) for a pattern without groups
ReSplit(p, s) ==
    LET Between(ms) ==
            [k \in 1..(Len(ms) + 1) |->
                SubSeq(s, IF k = 1 THEN 1 ELSE ms[k - 1].end,
                          IF k > Len(ms) THEN Len(s) ELSE ms[k].start - 1)]
    IN  Between(FindIter(p, s))

\* re.sub(pattern, repl, s)
ReSub(p, repl, s) == Join(repl, ReSplit(p, s))

\* str.split('\n')
SplitLines(s) == ReSplit(Re(<<Lit("\n")>>), s)

Whitespace == Re(<<Cls(SpaceSet, 1, None)>>)

\* str.split()
Split(s) == SelectSeq(ReSplit(Whitespace, s), LAMBDA part : part # "")

(***************************************************************************)
(* Fixed-point arithmetic: 1000 models the float 1.0                       *)
(***************************************************************************)
One == 1000

Mul(a, b) == (a * b) \div One

(***************************************************************************)
(* Products handed to add_products (app/models/schemas.py: Product)        *)
(***************************************************************************)
ProductBosch ==
    [id |-> "p1", name |-> "Perceuse GSB",
     brand |-> [name |-> "Bosch", normalized_name |-> "BOSCH", aliases |-> <<>>,
                confidence |-> 630],
     reference |-> [reference |-> "GSB120-LI", normalized_reference |-> "GSB120LI",
                    format_pattern |-> Some("ref_prefix"), confidence |-> 950],
     characteristics |-> <<[name |-> "Puissance", value |-> "120", unit |-> Some("W")]>>,
     description |-> None, category |-> None, price |-> None, currency |-> Some("EUR"),
     source_document |-> Some("catalogue.pdf"), extraction_confidence |-> 672]

ProductMakita ==
    [id |-> "p2", name |-> "Scie HS",
     brand |-> [name |-> "MAKITA", normalized_name |-> "MAKITA", aliases |-> <<>>,
                confidence |-> 810],
     reference |-> [reference |-> "HS7100", normalized_reference |-> "HS7100",
                    format_pattern |-> Some("ref_alphanumeric"), confidence |-> 560],
     characteristics |-> <<>>,
     description |-> None, category |-> Some("outillage"), price |-> Some(80),
     currency |-> Some("EUR"),
     source_document |-> Some("catalogue.pdf"), extraction_confidence |-> 548]

ProductPool == {ProductBosch, ProductMakita}

(***************************************************************************)
(* HybridRetriever: building the index entries                             *)
(***************************************************************************)
\* x or default
OrElse(x, default) == IF x = None THEN default ELSE x[1]

CharText(char) ==
    char.name \o ": " \o char.value \o (IF char.unit # None THEN " " \o char.unit[1] ELSE "")

_create_searchable_text(product) ==
    LET parts == <<product.name, product.brand.name, product.reference.reference>>
                 \o product.description
                 \o product.category
                 \o [i \in 1..Len(product.characteristics) |->
                        CharText(product.characteristics[i])]
    IN  Join(" | ", SelectSeq(parts, LAMBDA x : x # ""))

Metadata(product) ==
    [product_id |-> product.id,
     product_name |-> product.name,
     brand_name |-> product.brand.name,
     brand_normalized |-> product.brand.normalized_name,
     reference |-> product.reference.reference,
     reference_normalized |-> product.reference.normalized_reference,
     source_document |-> OrElse(product.source_document, ""),
     extraction_confidence |-> product.extraction_confidence,
     category |-> OrElse(product.category, "unknown"),
     price |-> OrElse(product.price, 0),
     currency |-> OrElse(product.currency, "EUR"),
     characteristics_count |-> Len(product.characteristics)]

Entry(product) ==
    [id |-> product.id, document |-> _create_searchable_text(product),
     metadata |-> Metadata(product)]

_reconstruct_product_from_metadata(metadata, document) ==
    [id |-> metadata.product_id,
     name |-> metadata.product_name,
     brand |-> [name |-> metadata.brand_name, normalized_name |-> metadata.brand_normalized,
                aliases |-> <<>>, confidence |-> One],
     reference |-> [reference |-> metadata.reference,
                    normalized_reference |-> metadata.reference_normalized,
                    format_pattern |-> None, confidence |-> One],
     characteristics |-> <<>>,
     description |-> None,
     category |-> Some(metadata.category),
     price |-> Some(metadata.price),
     currency |-> Some(metadata.currency),
     source_document |-> Some(metadata.source_document),
     extraction_confidence |-> metadata.extraction_confidence]

\* doc.lower().split()
Tokenize(doc) == Split(Lower(doc))

(***************************************************************************)
(* The Chroma collection as the retriever uses it: an append-only sequence *)
(* of entries, queried by distance under a where clause.                   *)
(*   where.or : None, or the clauses of "$or" ({field: {"$contains": v}})  *)
(*   where.eq : the remaining keys, each an equality on a metadata field   *)
(***************************************************************************)
NoFilters == <<>>

Truthy(filters) == DOMAIN filters # {}

WhereMatches(metadata, where) ==
    /\ where.or # None =>
          \E i \in 1..Len(where.or[1]) :
              Contains(metadata[where.or[1][i].field], where.or[1][i].contains)
    /\ \A k \in DOMAIN where.eq :
          k \in DOMAIN metadata /\ metadata[k] = where.eq[k]

Indices(seq) == [i \in 1..Len(seq) |-> i]

\* positions of the stored entries that satisfy the where clause
Candidates(where) ==
    SelectSeq(Indices(collection), LAMBDA i : WhereMatches(collection[i].metadata, where))

\* collection.query(query_texts=[query], n_results=n, where=where); dist gives the
\* embedding distance between the query and each stored document
CollectionQuery(dist, n_results, where) ==
    LET nearest == StableSortAsc(Candidates(where), LAMBDA i : dist[collection[i].document])
        hits == Take(nearest, n_results)
    IN  [k \in 1..Len(hits) |->
            [id |-> collection[hits[k]].id,
             distance |-> dist[collection[hits[k]].document],
             metadata |-> collection[hits[k]].metadata,
             document |-> collection[hits[k]].document]]

(***************************************************************************)
(* HybridRetriever: search                                                 *)
(***************************************************************************)
_process_chroma_results(results, similarity_threshold) ==
    LET scored == [i \in 1..Len(results) |->
                      [product |-> _reconstruct_product_from_metadata(
                                       results[i].metadata, results[i].document),
                       score |-> One - results[i].distance]]
    IN  SelectSeq(scored, LAMBDA r : r.score >= similarity_threshold)

\* the brand clause is lost: only the caller's filters remain
BrandWhereNoClause(query, filters) == [or |-> None, eq |-> filters]

BrandWhere(query, filters) ==
    [or |-> Some(<<[field |-> "brand_name", contains |-> query],
                   [field |-> "brand_normalized", contains |-> Upper(query)]>>),
     eq |-> filters]

_search_by_brand(query, max_results, similarity_threshold, filters, dist) ==
    _process_chroma_results(
        CollectionQuery(dist, max_results, BrandWhere(query, filters)),
        similarity_threshold)

\* query.upper().replace('-', '').replace(' ', '')
NormalizeQuery(query) == ReplaceChar(ReplaceChar(Upper(query), "-", ""), " ", "")

\* the query is matched as typed against the normalized reference too
ReferenceWhereRawQuery(query, filters) ==
    [or |-> Some(<<[field |-> "reference", contains |-> query],
                   [field |-> "reference_normalized", contains |-> query]>>),
     eq |-> filters]

ReferenceWhere(query, filters) ==
    [or |-> Some(<<[field |-> "reference", contains |-> query],
                   [field |-> "reference_normalized", contains |-> NormalizeQuery(query)]>>),
     eq |-> filters]

_search_by_reference(query, max_results, similarity_threshold, filters, dist) ==
    _process_chroma_results(
        CollectionQuery(dist, max_results, ReferenceWhere(query, filters)),
        similarity_threshold)

SemanticWhere(filters) == [or |-> None, eq |-> filters]

_semantic_search(query, max_results, similarity_threshold, filters, dist) ==
    _process_chroma_results(
        CollectionQuery(dist, max_results, SemanticWhere(filters)),
        similarity_threshold)

CharacteristicThreshold == 800

\* the caller's threshold is passed on instead of the fixed one
CharacteristicsCallerThreshold(query, max_results, similarity_threshold, filters, dist) ==
    _process_chroma_results(
        CollectionQuery(dist, max_results, [or |-> None, eq |-> filters]),
        similarity_threshold)

_search_by_characteristics(query, max_results, similarity_threshold, filters, dist) ==
    _semantic_search(query, max_results, CharacteristicThreshold, filters, dist)

_apply_filters(product, filters) ==
    \/ ~Truthy(filters)
    \/ \A key \in DOMAIN filters :
          /\ key = "brand_name" => product.brand.name = filters[key]
          /\ key = "category" => product.category = Some(filters[key])
          /\ key = "min_price" => OrElse(product.price, 0) >= filters[key]
          /\ key = "max_price" => OrElse(product.price, 0) <= filters[key]

Bm25Ceiling == 10

\* np.argsort(scores)[::-1]: positions by descending score, the later position
\* first among equal scores
ArgsortReversed(scores) ==
    LET n == Len(scores)
        rank(i) == Cardinality({j \in 1..n : \/ scores[j] > scores[i]
                                             \/ scores[j] = scores[i] /\ j > i})
    IN  [k \in 1..n |-> CHOOSE i \in 1..n : rank(i) = k - 1]

\* bm25 gives the raw score of each tokenized document of the corpus.
\* The result is [exc, value]: products[idx] raises IndexError past the end of the list.
_bm25_search(query, max_results, filters, bm25) ==
    IF bm25_index = None \/ Len(documents) = 0
    THEN [exc |-> None, value |-> <<>>]
    ELSE
        LET corpus == bm25_index[1].corpus
            scores == [i \in 1..Len(corpus) |-> bm25[corpus[i]]]
            top_indices == Take(ArgsortReversed(scores), max_results)
            positive == SelectSeq(top_indices, LAMBDA idx : scores[idx] > 0)
        IN  IF \E k \in 1..Len(positive) : positive[k] > Len(products)
            THEN [exc |-> Some("IndexError"), value |-> <<>>]
            ELSE
                LET kept == SelectSeq(positive,
                                LAMBDA idx : _apply_filters(products[idx], filters))
                IN  [exc |-> None,
                     value |-> [k \in 1..Len(kept) |->
                                   [product |-> products[kept[k]],
                                    score |-> Min(scores[kept[k]] \div Bm25Ceiling, One)]]]

SemanticWeight == 700
Bm25Weight == 300

\* position of key in the insertion-ordered dict d, 0 when absent
KeyPos(d, key) ==
    IF \E i \in 1..Len(d) : d[i].key = key
    THEN CHOOSE i \in 1..Len(d) : d[i].key = key
    ELSE 0

\* d[key] = item
DictSet(d, key, item) ==
    LET e == [key |-> key, product |-> item.product, score |-> item.score]
    IN  IF KeyPos(d, key) = 0 THEN Append(d, e) ELSE [d EXCEPT ![KeyPos(d, key)] = e]

RECURSIVE AddSemantic(_, _)
AddSemantic(combined, semantic_results) ==
    IF Len(semantic_results) = 0 THEN combined
    ELSE LET r == semantic_results[1]
         IN  AddSemantic(
                 DictSet(combined, r.product.id,
                         [product |-> r.product, score |-> Mul(r.score, SemanticWeight)]),
                 Tail(semantic_results))

RECURSIVE AddBm25(_, _)
AddBm25(combined, bm25_results) ==
    IF Len(bm25_results) = 0 THEN combined
    ELSE LET r == bm25_results[1]
             pos == KeyPos(combined, r.product.id)
             item == IF pos # 0
                     THEN [product |-> combined[pos].product,
                           score |-> combined[pos].score + Mul(r.score, Bm25Weight)]
                     ELSE [product |-> r.product, score |-> Mul(r.score, Bm25Weight)]
         IN  AddBm25(DictSet(combined, r.product.id, item), Tail(bm25_results))

_combine_search_results(semantic_results, bm25_results) ==
    LET combined == AddBm25(AddSemantic(<<>>, semantic_results), bm25_results)
        results == [i \in 1..Len(combined) |->
                       [product |-> combined[i].product, score |-> combined[i].score]]
    IN  StableSortDesc(results, LAMBDA r : r.score)

\* [exc, value, semantic, lexical]
_hybrid_search(query, max_results, similarity_threshold, filters, dist, bm25) ==
    LET semantic_results ==
            _semantic_search(query, max_results, similarity_threshold, filters, dist)
        bm25_results ==
            IF bm25_index # None THEN _bm25_search(query, max_results, filters, bm25)
            ELSE [exc |-> None, value |-> <<>>]
        combined_results == _combine_search_results(semantic_results, bm25_results.value)
    IN  [exc |-> bm25_results.exc,
         value |-> Take(combined_results, max_results),
         semantic |-> semantic_results,
         lexical |-> bm25_results.value]

(***************************************************************************)
(* HybridRetriever.search_products                                         *)
(***************************************************************************)
MatchingStage == {"brand_matching", "reference_matching", "characteristic_matching"}

\* stage=None: the caller names no stage
StageNone == "<None>"
\* an object outside MatchingStage that still has a .value attribute
\* (a member of another Enum)
StageGeneral == "general"

\* stage.value evaluates (None has no attribute 'value')
HasValue(stage) == stage # StageNone

Dispatch(query, stage, max_results, similarity_threshold, filters, dist, bm25) ==
    IF stage = "brand_matching"
    THEN LET r == _search_by_brand(query, max_results, similarity_threshold, filters, dist)
         IN  [exc |-> None, value |-> r, semantic |-> r, lexical |-> <<>>]
    ELSE IF stage = "reference_matching"
    THEN LET r == _search_by_reference(query, max_results, similarity_threshold, filters, dist)
         IN  [exc |-> None, value |-> r, semantic |-> r, lexical |-> <<>>]
    ELSE IF stage = "characteristic_matching"
    THEN LET r == _search_by_characteristics(query, max_results, similarity_threshold,
                                             filters, dist)
         IN  [exc |-> None, value |-> r, semantic |-> r, lexical |-> <<>>]
    ELSE _hybrid_search(query, max_results, similarity_threshold, filters, dist, bm25)

StageWhere(query, stage, filters) ==
    IF stage = "brand_matching" THEN BrandWhere(query, filters)
    ELSE IF stage = "reference_matching" THEN ReferenceWhere(query, filters)
    ELSE SemanticWhere(filters)

Returned(op, results) ==
    [op |-> op, kind |-> "returned", results |-> results,
     exc |-> None, error_code |-> None, context |-> None]

Raised(op, exc, error_code, context) ==
    [op |-> op, kind |-> "raised", results |-> <<>>,
     exc |-> Some(exc), error_code |-> error_code, context |-> context]

\* what search_products hands to its caller once the strategy has run:
\* inner.exc is the exception raised inside the try block, if any
SearchResponse(query, stage, inner) ==
    IF inner.exc = None /\ HasValue(stage)
    THEN Returned("search", inner.value)
    ELSE IF HasValue(stage)
    THEN Raised("search", "VectorStoreError", Some("SEARCH_ERROR"),
                Some([query |-> query, stage |-> stage, error |-> inner.exc[1]]))
    ELSE Raised("search", "AttributeError", None, None)

\* no call is in progress: the caller holds the response of the previous one
Idle == request.op = "idle"

\* fault: None, or the exception the embedding / index backend raises during the query
search_products(query, stage, max_results, similarity_threshold, filters, dist, bm25, fault) ==
    /\ \E inner \in {IF fault # None
                     THEN [exc |-> fault, value |-> <<>>, semantic |-> <<>>, lexical |-> <<>>]
                     ELSE Dispatch(query, stage, max_results, similarity_threshold,
                                   filters, dist, bm25)} :
        /\ request' = [op |-> "search", query |-> query, stage |-> stage,
                       max_results |-> max_results,
                       similarity_threshold |-> similarity_threshold,
                       filters |-> filters]
        /\ backend' = [dist |-> dist, bm25 |-> bm25, fault |-> fault]
        /\ trace' = [semantic |-> inner.semantic, lexical |-> inner.lexical,
                     candidates |-> Candidates(StageWhere(query, stage, filters))]
        /\ response' = SearchResponse(query, stage, inner)
        /\ UNCHANGED <<collection, bm25_index, documents, products>>

(***************************************************************************)
(* HybridRetriever.add_products and _update_bm25_index                     *)
(***************************************************************************)
\* The lexical structures after _update_bm25_index has run over the stored entries.
\* fault: None, or the step that raises ("get", "bm25", "reconstruct"); the
\* exception is logged and swallowed.
_update_bm25_index(stored, fault) ==
    LET all_documents == [i \in 1..Len(stored) |-> stored[i].document]
        tokenized_docs == [i \in 1..Len(stored) |-> Tokenize(stored[i].document)]
        old == [bm25_index |-> bm25_index, documents |-> documents, products |-> products]
    IN  IF fault = Some("get") THEN old
        ELSE IF Len(all_documents) = 0 THEN old
        ELSE IF fault = Some("bm25") THEN old
        ELSE IF fault = Some("reconstruct")
        THEN [old EXCEPT !.bm25_index = Some([corpus |-> tokenized_docs]),
                         !.documents = all_documents]
        ELSE [bm25_index |-> Some([corpus |-> tokenized_docs]),
              documents |-> all_documents,
              products |-> [i \in 1..Len(stored) |->
                               _reconstruct_product_from_metadata(
                                   stored[i].metadata, stored[i].document)]]

MaxDocs == 3

\* an existing id is replaced in place instead of being stored once more
AddProductsUpsert(batch, fault) ==
    /\ Len(collection) + Len(batch) <= MaxDocs
    /\ request' = [op |-> "add", products |-> batch]
    /\ UNCHANGED <<backend, trace>>
    /\ IF Len(batch) = 0
       THEN /\ response' = Returned("add", <<>>)
            /\ UNCHANGED <<collection, bm25_index, documents, products>>
       ELSE IF fault = Some("add")
       THEN /\ response' = Raised("add", "VectorStoreError", Some("ADD_PRODUCTS_ERROR"),
                                  Some([products_count |-> Len(batch),
                                        error |-> "collection.add"]))
            /\ UNCHANGED <<collection, bm25_index, documents, products>>
       ELSE LET Installed(stored) ==
                    LET Rebuilt(lexical) ==
                            /\ collection' = stored
                            /\ bm25_index' = lexical.bm25_index
                            /\ documents' = lexical.documents
                            /\ products' = lexical.products
                            /\ response' = Returned("add", <<>>)
                    IN  Rebuilt(_update_bm25_index(stored, fault))
            IN  Installed(SelectSeq(collection,
                                    LAMBDA e : \A i \in 1..Len(batch) : batch[i].id # e.id)
                          \o [i \in 1..Len(batch) |-> Entry(batch[i])])

AddFaults == {None, Some("add"), Some("get"), Some("bm25"), Some("reconstruct")}

add_products(batch, fault) ==
    /\ Len(collection) + Len(batch) <= MaxDocs
    /\ request' = [op |-> "add", products |-> batch]
    /\ UNCHANGED <<backend, trace>>
    /\ IF Len(batch) = 0
       THEN /\ response' = Returned("add", <<>>)
            /\ UNCHANGED <<collection, bm25_index, documents, products>>
       ELSE IF fault = Some("add")
       THEN /\ response' = Raised("add", "VectorStoreError", Some("ADD_PRODUCTS_ERROR"),
                                  Some([products_count |-> Len(batch),
                                        error |-> "collection.add"]))
            /\ UNCHANGED <<collection, bm25_index, documents, products>>
       ELSE LET stored == collection \o [i \in 1..Len(batch) |-> Entry(batch[i])]
                lexical == _update_bm25_index(stored, fault)
            IN  /\ collection' = stored
                /\ bm25_index' = lexical.bm25_index
                /\ documents' = lexical.documents
                /\ products' = lexical.products
                /\ response' = Returned("add", <<>>)

(***************************************************************************)
(* Inputs of the retriever                                                 *)
(***************************************************************************)
Batches ==
    {<<>>} \cup {<<p>> : p \in ProductPool} \cup {<<p, q>> : p, q \in ProductPool}

Queries == {"BOSCH", "GSB120-LI", "hs 7100"}

StageInputs == MatchingStage \cup {StageNone, StageGeneral}

MaxResultsInputs == {1, 2}

ThresholdInputs == {700, 950}

FilterInputs ==
    {NoFilters, [brand_name |-> "Bosch"],
     [category |-> "outillage", min_price |-> 50, max_price |-> 100]}

\* distances the embedding index may report (0.10, 0.25)
Distances == {100, 250}

\* raw BM25 scores the ranking backend may report (0, 4.0, 15.0)
RawScores == {0, 4000, 15000}

SearchFaults == {None, Some("ConnectionError")}

StoredDocuments == {collection[i].document : i \in 1..Len(collection)}

IsHybrid(stage) == stage \notin MatchingStage

\* query.lower().split()
QueryTokens == [query \in Queries |-> Tokenize(query)]

\* a document that shares no token with the query scores 0
Bm25Answers(query, stage, fault) ==
    IF IsHybrid(stage) /\ bm25_index # None /\ fault = None
    THEN LET corpus == Range(bm25_index[1].corpus)
             hit == {doc \in corpus : Range(doc) \cap Range(QueryTokens[query]) # {}}
         IN  {[doc \in corpus |-> IF doc \in hit THEN sc[doc] ELSE 0] :
                 sc \in [hit -> RawScores]}
    ELSE {<<>>}

\* the threads that may call add_products at the same time
Writers == {"w1", "w2"}

NoWriter == [pc |-> "idle", batch |-> <<>>, snapshot |-> <<>>]

NoWriters == [w \in Writers |-> NoWriter]

NoRequest == [op |-> "idle"]
NoBackend == [dist |-> <<>>, bm25 |-> <<>>, fault |-> None]
NoTrace == [semantic |-> <<>>, lexical |-> <<>>, candidates |-> <<>>]
NoResponse == Returned("idle", <<>>)

RetrieverInit ==
    /\ collection = <<>>
    /\ bm25_index = None
    /\ documents = <<>>
    /\ products = <<>>
    /\ request = NoRequest
    /\ backend = NoBackend
    /\ trace = NoTrace
    /\ response = NoResponse
    /\ writers = NoWriters

AddProducts ==
    /\ Idle
    /\ \E batch \in Batches, fault \in AddFaults : add_products(batch, fault)
    /\ UNCHANGED writers

\* a backend that raises answers nothing
DistAnswers(fault) ==
    IF fault = None THEN [StoredDocuments -> Distances]
    ELSE {[d \in StoredDocuments |-> 0]}

SearchProducts ==
    /\ Idle
    /\ \E query \in Queries, stage \in StageInputs, max_results \in MaxResultsInputs,
          similarity_threshold \in ThresholdInputs, filters \in FilterInputs,
          fault \in SearchFaults :
          \E dist \in DistAnswers(fault), bm25 \in Bm25Answers(query, stage, fault) :
              search_products(query, stage, max_results, similarity_threshold, filters,
                              dist, bm25, fault)
    /\ UNCHANGED writers

StatsFaults == {None, Some("ConnectionError")}

\* fault: None, or the exception collection.count() raises
get_stats(fault) ==
    /\ request' = [op |-> "stats"]
    /\ response' = Returned("stats",
                       IF fault = None
                       THEN [total_documents |-> Len(collection),
                             collection_name |-> "rag_documents",
                             embedding_model |-> "BAAI/bge-large-en-v1.5",
                             bm25_enabled |-> bm25_index # None]
                       ELSE [error |-> fault[1]])
    /\ UNCHANGED <<collection, bm25_index, documents, products, backend, trace>>

GetStats ==
    /\ Idle
    /\ \E fault \in StatsFaults : get_stats(fault)
    /\ UNCHANGED writers

\* the caller takes the response; the next call can start
Return ==
    /\ ~Idle
    /\ request' = NoRequest
    /\ backend' = NoBackend
    /\ trace' = NoTrace
    /\ response' = NoResponse
    /\ UNCHANGED <<collection, bm25_index, documents, products, writers>>

RetrieverNext == AddProducts \/ SearchProducts \/ GetStats \/ Return

SpecRetriever == RetrieverInit /\ [][RetrieverNext]_vars

(***************************************************************************)
(* A retriever constructed over the persistent store of an earlier process *)
(***************************************************************************)
\* what chromadb.PersistentClient finds on disk when __init__ runs
PersistedStores ==
    {<<>>, <<Entry(ProductBosch)>>, <<Entry(ProductBosch), Entry(ProductMakita)>>}

\* __init__: the lexical structures start empty whatever the store holds
ConstructedInit ==
    /\ collection \in PersistedStores
    /\ bm25_index = None
    /\ documents = <<>>
    /\ products = <<>>
    /\ request = NoRequest
    /\ backend = NoBackend
    /\ trace = NoTrace
    /\ response = NoResponse
    /\ writers = NoWriters

SpecConstructed == ConstructedInit /\ [][RetrieverNext]_vars

(***************************************************************************)
(* add_products called from concurrent threads. The method takes no lock:  *)
(* each statement of add_products and _update_bm25_index is a step of its  *)
(* thread, and the steps of the threads interleave freely.                 *)
(*   pc: idle -> insert -> get -> index -> documents -> products -> return *)
(***************************************************************************)
\* the single-caller view of a call, not used by the threads
callVars == <<request, backend, trace, response>>

\* add_products(batch) is entered: the documents, metadatas and ids are prepared
BeginAdd(w, batch) ==
    /\ writers[w].pc = "idle"
    /\ Len(collection) + Len(batch)
          + Len(writers[CHOOSE v \in Writers : v # w].batch) <= MaxDocs
    /\ writers' = [writers EXCEPT ![w] = [pc |-> "insert", batch |-> batch,
                                          snapshot |-> <<>>]]
    /\ UNCHANGED <<collection, bm25_index, documents, products, callVars>>

\* self.collection.add(documents=..., metadatas=..., ids=...)
Insert(w) ==
    /\ writers[w].pc = "insert"
    /\ collection' = collection \o [i \in 1..Len(writers[w].batch) |->
                                       Entry(writers[w].batch[i])]
    /\ writers' = [writers EXCEPT ![w].pc = "get", ![w].batch = <<>>]
    /\ UNCHANGED <<bm25_index, documents, products, callVars>>

\* all_results = self.collection.get()
ReadStore(w) ==
    /\ writers[w].pc = "get"
    /\ writers' = [writers EXCEPT ![w].pc = "index", ![w].snapshot = collection]
    /\ UNCHANGED <<collection, bm25_index, documents, products, callVars>>

\* self.bm25_index = BM25Okapi(tokenized_docs)
InstallIndex(w) ==
    /\ writers[w].pc = "index"
    /\ bm25_index' = _update_bm25_index(writers[w].snapshot, None).bm25_index
    /\ writers' = [writers EXCEPT ![w].pc = "documents"]
    /\ UNCHANGED <<collection, documents, products, callVars>>

\* self.documents = all_results['documents']
InstallDocuments(w) ==
    /\ writers[w].pc = "documents"
    /\ documents' = _update_bm25_index(writers[w].snapshot, None).documents
    /\ writers' = [writers EXCEPT ![w].pc = "products"]
    /\ UNCHANGED <<collection, bm25_index, products, callVars>>

\* self.products = [self._reconstruct_product_from_metadata(...) for ...]
InstallProducts(w) ==
    /\ writers[w].pc = "products"
    /\ products' = _update_bm25_index(writers[w].snapshot, None).products
    /\ writers' = [writers EXCEPT ![w].pc = "return"]
    /\ UNCHANGED <<collection, bm25_index, documents, callVars>>

\* add_products returns to its caller
ReturnAdd(w) ==
    /\ writers[w].pc = "return"
    /\ writers' = [writers EXCEPT ![w] = NoWriter]
    /\ UNCHANGED <<collection, bm25_index, documents, products, callVars>>

WriterBatches == {<<p>> : p \in ProductPool} \cup {<<p, q>> : p, q \in ProductPool}

ConcurrentNext ==
    \E w \in Writers :
        \/ \E batch \in WriterBatches : BeginAdd(w, batch)
        \/ Insert(w)
        \/ ReadStore(w)
        \/ InstallIndex(w)
        \/ InstallDocuments(w)
        \/ InstallProducts(w)
        \/ ReturnAdd(w)

SpecConcurrentAdd == RetrieverInit /\ [][ConcurrentNext]_vars

(***************************************************************************)
(* ProductExtractor                                                        *)
(***************************************************************************)
brand_patterns ==
    <<[name |-> "brand_prefix",
       pattern |-> ReI(<<Words(<<"marque", "brand", "fabricant", "manufacturer">>),
                         Cls(SpaceSet \cup {":"}, 0, None),
                         Grp(1, <<Cls(UpperSet, 1, Some(1)),
                                  Cls(LetterSet \cup SpaceSet \cup {"&", "-"}, 1, None)>>)>>),
       confidence_modifier |-> 900],
      [name |-> "brand_caps",
       pattern |-> Re(<<WordBoundary,
                        Grp(1, <<Cls(UpperSet, 2, None),
                                 Rep(<<Cls(SpaceSet, 1, None), Cls(UpperSet, 2, None)>>,
                                     None)>>),
                        WordBoundary>>),
       confidence_modifier |-> 700],
      [name |-> "brand_mixed",
       pattern |-> Re(<<WordBoundary,
                        Grp(1, <<Cls(UpperSet, 1, Some(1)), Cls(LowerSet, 1, None),
                                 Rep(<<Cls(SpaceSet, 1, None), Cls(UpperSet, 1, Some(1)),
                                       Cls(LowerSet, 1, None)>>, None)>>),
                        WordBoundary>>),
       confidence_modifier |-> 600],
      [name |-> "brand_with_symbols",
       pattern |-> Re(<<WordBoundary,
                        Grp(1, <<Cls(UpperSet, 1, Some(1)),
                                 Cls(AlnumSet \cup {"&", "-"}, 1, None),
                                 Rep(<<Cls(SpaceSet, 1, None), Cls(UpperSet, 1, Some(1)),
                                       Cls(AlnumSet \cup {"&", "-"}, 1, None)>>, None)>>),
                        WordBoundary>>),
       confidence_modifier |-> 500]>>

reference_patterns ==
    <<[name |-> "ref_prefix",
       pattern |-> ReI(<<Words(<<"référence", "reference", "ref", "réf", "model", "modèle">>),
                         Cls(SpaceSet \cup {":"}, 0, None),
                         Grp(1, <<Cls(UpperSet \cup DigitSet \cup {"-"}, 1, None)>>)>>),
       confidence_modifier |-> 950],
      [name |-> "ref_alphanumeric",
       pattern |-> Re(<<WordBoundary,
                        Grp(1, <<Cls(UpperSet, 1, Some(4)), Cls(DigitSet, 2, Some(8)),
                                 Cls(UpperSet \cup DigitSet \cup {"-"}, 0, None)>>),
                        WordBoundary>>),
       confidence_modifier |-> 800],
      [name |-> "ref_numeric",
       pattern |-> Re(<<WordBoundary, Grp(1, <<Cls(DigitSet, 4, Some(12))>>), WordBoundary>>),
       confidence_modifier |-> 600],
      [name |-> "ref_mixed",
       pattern |-> Re(<<WordBoundary, Grp(1, <<Cls(UpperSet \cup DigitSet, 6, Some(15))>>),
                        WordBoundary>>),
       confidence_modifier |-> 700]>>

\* [0-9]+(?:[.,][0-9]+)?
Number == <<Cls(DigitSet, 1, None), Rep(<<Cls({".", ","}, 1, Some(1)), Cls(DigitSet, 1, None)>>, Some(1))>>

\* ((?:w1|w2|...))[\s:]*(number)\s*(unit)
Measure(ws, unit) ==
    ReI(<<Grp(1, <<Words(ws)>>), Cls(SpaceSet \cup {":"}, 0, None), Grp(2, Number),
          Cls(SpaceSet, 0, None), Grp(3, unit)>>)

\* ((?:w1|w2|...))[\s:]*([A-Za-z\s]+)
Wording(ws) ==
    ReI(<<Grp(1, <<Words(ws)>>), Cls(SpaceSet \cup {":"}, 0, None),
          Grp(2, <<Cls(LetterSet \cup SpaceSet, 1, None)>>)>>)

characteristic_patterns ==
    <<[name |-> "dimension", groups |-> 3,
       pattern |-> Measure(<<"longueur", "largeur", "hauteur", "diameter", "diamètre",
                             "taille", "size">>, <<Cls(LowerSet, 1, Some(3))>>)],
      [name |-> "weight", groups |-> 3,
       pattern |-> Measure(<<"poids", "weight", "masse">>, <<Words(<<"kg", "g", "lb">>)>>)],
      [name |-> "material", groups |-> 2,
       pattern |-> Wording(<<"matériau", "material", "matière">>)],
      [name |-> "color", groups |-> 2,
       pattern |-> Wording(<<"couleur", "color", "coloration">>)],
      [name |-> "voltage", groups |-> 3,
       pattern |-> Measure(<<"tension", "voltage", "volt">>, <<Cls({"v", "V"}, 1, Some(1))>>)],
      [name |-> "power", groups |-> 3,
       pattern |-> Measure(<<"puissance", "power", "watt">>, <<Cls({"w", "W"}, 1, Some(1))>>)],
      [name |-> "generic_numeric", groups |-> 3,
       pattern |-> Re(<<Grp(1, <<Cls(LetterSet \cup SpaceSet, 1, None)>>),
                        Cls(SpaceSet \cup {":"}, 0, None), Grp(2, Number),
                        Cls(SpaceSet, 0, None), Grp(3, <<Cls(LetterSet, 1, None)>>)>>)]>>

\* str.isdigit()
IsDigits(s) == Len(s) > 0 /\ \A i \in 1..Len(s) : IsDigit(Ch(s, i))

\* str.isupper(): at least one cased character and no lowercase one
IsUpperStr(s) ==
    /\ \E i \in 1..Len(s) : Ch(s, i) \in CasedUpper
    /\ \A i \in 1..Len(s) : Ch(s, i) \notin CasedLower

_is_valid_brand(brand) ==
    /\ Len(brand) >= 2
    /\ Len(brand) <= 50
    /\ ~IsDigits(brand)
    /\ ReMatch(Re(<<StartAnchor, NotCls(LetterSet, 0, None), EndAnchor>>), brand) = None

_is_valid_reference(reference) ==
    /\ Len(reference) >= 3
    /\ Len(reference) <= 20
    /\ FindIter(Re(<<Cls(AlnumSet, 1, Some(1))>>), reference) # <<>>

_is_valid_characteristic(name, value) ==
    /\ Len(name) >= 2 /\ Len(name) <= 50
    /\ Len(value) >= 1 /\ Len(value) <= 100

_normalize_brand_name(brand) == ReSub(Whitespace, " ", Strip(Upper(brand)))

_normalize_reference(reference) ==
    ReSub(Re(<<NotCls(UpperSet \cup DigitSet, 1, Some(1))>>), "", Upper(reference))

_normalize_characteristic_name(name) == ReSub(Whitespace, " ", Strip(Lower(name)))

_normalize_characteristic_value(value, unit) ==
    Strip(ReplaceChar(value, ",", "."))
        \o (IF unit # None /\ unit # Some("") THEN " " \o Lower(unit[1]) ELSE "")

AnyIn(words, s) == \E k \in 1..Len(words) : Contains(s, words[k])

_categorize_characteristic(name) ==
    LET name_lower == Lower(name)
    IN  IF AnyIn(<<"longueur", "largeur", "hauteur", "dimension", "taille">>, name_lower)
        THEN "dimension"
        ELSE IF AnyIn(<<"poids", "masse", "weight">>, name_lower) THEN "poids"
        ELSE IF AnyIn(<<"matériau", "material", "matière">>, name_lower) THEN "materiau"
        ELSE IF AnyIn(<<"couleur", "color">>, name_lower) THEN "couleur"
        ELSE IF AnyIn(<<"tension", "voltage", "volt">>, name_lower) THEN "electrique"
        ELSE IF AnyIn(<<"puissance", "power", "watt">>, name_lower) THEN "puissance"
        ELSE "autre"

_calculate_brand_confidence(brand, text) ==
    LET occurrences == Len(FindIter(ReI(<<Lit(brand)>>), text))
    IN  Min(500 + Min(occurrences * 100, 300) + (IF IsUpperStr(brand) THEN 100 ELSE 0), One)

_calculate_reference_confidence(reference, text) ==
    LET typical == ReMatch(Re(<<StartAnchor, Cls(UpperSet, 2, Some(4)),
                                Cls(DigitSet, 3, None)>>), reference) # None
        keyword == FindIter(ReI(<<Words(<<"ref", "référence", "model", "modèle">>),
                                  Cls(SpaceSet \cup {":"}, 0, None), Lit(reference)>>),
                            text) # <<>>
    IN  Min(500 + (IF typical THEN 200 ELSE 0) + (IF keyword THEN 300 ELSE 0), One)

\* the characteristic term grows with the count without saturating at 5
ConfidenceUnsaturated(brands, references, characteristics) ==
    LET brand_conf == IF Len(brands) > 0 THEN brands[1].confidence ELSE 0
        ref_conf == IF Len(references) > 0 THEN references[1].confidence ELSE 0
        char_conf == (Len(characteristics) * One) \div 5
    IN  Mul(brand_conf, 400) + Mul(ref_conf, 400) + Mul(char_conf, 200)

_calculate_extraction_confidence(brands, references, characteristics) ==
    LET brand_conf == IF Len(brands) > 0 THEN brands[1].confidence ELSE 0
        ref_conf == IF Len(references) > 0 THEN references[1].confidence ELSE 0
        char_conf == Min((Len(characteristics) * One) \div 5, One)
    IN  Mul(brand_conf, 400) + Mul(ref_conf, 400) + Mul(char_conf, 200)

\* keeps, in order, the first entry of every key
DedupBy(seq, Key(_)) ==
    SelectSeq([i \in 1..Len(seq) |->
                  IF \E j \in 1..(i - 1) : Key(seq[j]) = Key(seq[i]) THEN None
                  ELSE Some(seq[i])],
              LAMBDA x : x # None)

Unwrap(seq) == [i \in 1..Len(seq) |-> seq[i][1]]

\* every candidate is kept
KeepAllBrands(brands) == brands

_deduplicate_brands(brands) == Unwrap(DedupBy(brands, LAMBDA b : b.normalized_name))

_deduplicate_references(references) ==
    Unwrap(DedupBy(references, LAMBDA r : r.normalized_reference))

_deduplicate_characteristics(characteristics) ==
    Unwrap(DedupBy(characteristics, LAMBDA c : <<c.normalized_name, c.normalized_value>>))

\* the candidates of one pattern, in match order
BrandCandidates(pattern, text) ==
    LET Names(ms) == [k \in 1..Len(ms) |-> Strip(Group(text, ms[k], 1))]
        Brands(valid) ==
            [k \in 1..Len(valid) |->
                [name |-> valid[k],
                 normalized_name |-> _normalize_brand_name(valid[k]),
                 aliases |-> <<>>,
                 confidence |-> Mul(pattern.confidence_modifier,
                                    _calculate_brand_confidence(valid[k], text))]]
    IN  Brands(SelectSeq(Names(FindIter(pattern.pattern, text)), _is_valid_brand))

_extract_brands(text) ==
    LET brands == Flatten([p \in 1..Len(brand_patterns) |->
                              BrandCandidates(brand_patterns[p], text)])
        unique_brands == _deduplicate_brands(brands)
    IN  Take(StableSortDesc(unique_brands, LAMBDA b : b.confidence), 3)

ReferenceCandidates(pattern, text) ==
    LET Values(ms) == [k \in 1..Len(ms) |-> Strip(Group(text, ms[k], 1))]
        References(valid) ==
            [k \in 1..Len(valid) |->
                [reference |-> valid[k],
                 normalized_reference |-> _normalize_reference(valid[k]),
                 format_pattern |-> Some(pattern.name),
                 confidence |-> Mul(pattern.confidence_modifier,
                                    _calculate_reference_confidence(valid[k], text))]]
    IN  References(SelectSeq(Values(FindIter(pattern.pattern, text)), _is_valid_reference))

_extract_references(text) ==
    LET references == Flatten([p \in 1..Len(reference_patterns) |->
                                  ReferenceCandidates(reference_patterns[p], text)])
        unique_references == _deduplicate_references(references)
    IN  Take(StableSortDesc(unique_references, LAMBDA r : r.confidence), 3)

CharacteristicCandidates(pattern, text) ==
    LET Found(ms) ==
            [k \in 1..Len(ms) |->
                [name |-> Strip(Group(text, ms[k], 1)),
                 value |-> Strip(Group(text, ms[k], 2)),
                 unit |-> IF pattern.groups >= 3
                          THEN Some(Strip(Group(text, ms[k], 3))) ELSE None]]
        Characteristics(valid) ==
            [k \in 1..Len(valid) |->
                [name |-> valid[k].name,
                 value |-> valid[k].value,
                 unit |-> valid[k].unit,
                 category |-> Some(_categorize_characteristic(valid[k].name)),
                 normalized_name |-> _normalize_characteristic_name(valid[k].name),
                 normalized_value |->
                     _normalize_characteristic_value(valid[k].value, valid[k].unit)]]
    IN  Characteristics(SelectSeq(Found(FindIter(pattern.pattern, text)),
                                  LAMBDA c : _is_valid_characteristic(c.name, c.value)))

_extract_characteristics(text) ==
    _deduplicate_characteristics(
        Flatten([p \in 1..Len(characteristic_patterns) |->
                    CharacteristicCandidates(characteristic_patterns[p], text)]))

_extract_product_name(text) ==
    LET numbered == Re(<<StartAnchor, Cls(DigitSet, 1, None), Cls({".", ")"}, 1, Some(1))>>)
        capitals == Re(<<StartAnchor, Cls(UpperSet \cup SpaceSet, 1, None), EndAnchor>>)
        Stripped(lines) == [k \in 1..Len(lines) |-> Strip(lines[k])]
        Significant(stripped) ==
            SelectSeq(stripped, LAMBDA line :
                /\ Len(line) > 10 /\ Len(line) < 100
                /\ ReMatch(numbered, line) = None
                /\ ReMatch(capitals, line) = None)
        Name(significant, nonempty) ==
            IF Len(significant) > 0 THEN significant[1]
            ELSE IF Len(nonempty) > 0 THEN Take(nonempty[1], 80)
            ELSE "Produit extrait"
        Named(stripped) ==
            Name(Significant(stripped), SelectSeq(stripped, LAMBDA line : line # ""))
    IN  Named(Stripped(SplitLines(text)))

\* Path(source_path).stem
Stem(path) ==
    LET Cut(name, dots) == IF dots = {} THEN name ELSE SubSeq(name, 1, SetMax(dots) - 1)
        Name(name) == Cut(name, {i \in 2..Len(name) : Ch(name, i) = "."})
        Last(parts) == Name(parts[Len(parts)])
    IN  Last(ReSplit(Re(<<Lit("/")>>), path))

\* md5 of "<stem>_<section_idx>_<now>", cut to 12 hex digits: one id per triple
_generate_product_id(source_path, section_idx, now) ==
    <<Stem(source_path), section_idx, now>>

\* The sections the input texts are made of: a section with a brand and a
\* reference (twice), one with a brand and no reference, one whose only brand
\* candidate fails validation, one in which the same brand, the same reference
\* and the same characteristic are each written twice.
SectionPool ==
    <<"Marque: BOSCH\nRéférence: GSB120-LI\nPuissance: 120W avec mandrin",
      "Perceuse Makita HS7100\nmarque : Makita ref HS7100 tension 18 V poids 2,5 kg",
      "Marque: Makita, outil pour le bois et les metaux durs.",
      "marque: a, code 12345 tension 18 v poids 2 kg longueur 30 cm",
      "Marque: Makita. Brand: MAKITA. Ref: gsb120, REF: GSB120. poids 2 kg, poids 2 kg, tension 18 V, longueur 30 cm, largeur 10 cm, hauteur 5 cm, puissance 120 W">>

\* what _extract_single_product reads off a section
Scan(text) ==
    [brands |-> _extract_brands(text),
     references |-> _extract_references(text),
     characteristics |-> _extract_characteristics(text),
     product_name |-> _extract_product_name(text)]

split_patterns ==
    <<ReI(<<Lit("\n"), Cls(SpaceSet, 0, None), Cls(DigitSet, 1, None),
            Cls({".", ")"}, 1, Some(1)), Cls(SpaceSet, 1, None)>>),
      ReI(<<Lit("\n"), Cls(SpaceSet, 0, None), Cls(UpperSet, 1, Some(1)),
            Cls(UpperSet \cup SpaceSet, 10, None), Lit("\n")>>),
      ReI(<<Lit("\n"), Cls(SpaceSet, 0, None), Cls({"-", "="}, 3, None),
            Cls(SpaceSet, 0, None), Lit("\n")>>),
      ReI(<<Lit("\n"), Cls(SpaceSet, 0, None), Lit("PRODUIT"), Cls(SpaceSet, 0, None),
            Cls(DigitSet, 0, None), Cls(SpaceSet, 0, None), Cls({":", "."}, 1, Some(1)),
            Cls(SpaceSet, 0, None)>>)>>

\* one pass of the splitting loop: every section split by the pattern, parts
\* stripped, empty parts dropped
SplitBy(pattern, sections) ==
    Flatten([k \in 1..Len(sections) |->
                LET Stripped(parts) == [j \in 1..Len(parts) |-> Strip(parts[j])]
                IN  SelectSeq(Stripped(ReSplit(pattern, sections[k])),
                              LAMBDA part : part # "")])

RECURSIVE SplitAll(_, _)
SplitAll(patterns, sections) ==
    IF Len(patterns) = 0 THEN sections
    ELSE SplitAll(Tail(patterns), SplitBy(Head(patterns), sections))

MinSectionLen == 50
MaxSectionLen == 2000

\* the lower limit is exclusive
SizeFilterExclusive(text, sections) ==
    LET Kept(filtered_sections) ==
            IF Len(filtered_sections) > 0 THEN filtered_sections ELSE <<text>>
    IN  Kept(SelectSeq(sections, LAMBDA section :
                           MinSectionLen < Len(section) /\ Len(section) <= MaxSectionLen))

\* nothing is returned when no section passes the size filter
SizeFilterNoFallback(text, sections) ==
    SelectSeq(sections, LAMBDA section :
                  MinSectionLen <= Len(section) /\ Len(section) <= MaxSectionLen)

\* the size filter and the fallback to the original text
SizeFilter(text, sections) ==
    LET Kept(filtered_sections) ==
            IF Len(filtered_sections) > 0 THEN filtered_sections ELSE <<text>>
    IN  Kept(SelectSeq(sections, LAMBDA section :
                           MinSectionLen <= Len(section) /\ Len(section) <= MaxSectionLen))

_split_into_product_sections(text) == SizeFilter(text, SplitAll(split_patterns, <<text>>))

MaxSections == 3

\* what stands between two sections of a text: a separator line, an explicit
\* product mention, a numbering
Separators == <<"\n---\n", "\nPRODUIT 2: ", "\n3) ">>

RECURSIVE Compose(_)
Compose(pieces) ==
    IF Len(pieces) = 1 THEN SectionPool[pieces[1]]
    ELSE Compose(SubSeq(pieces, 1, Len(pieces) - 1))
             \o Separators[((Len(pieces) - 2) % Len(Separators)) + 1]
             \o SectionPool[pieces[Len(pieces)]]

\* the texts handed to the extractor: the empty text, and one to MaxSections
\* pool sections with separators between them
Texts ==
    {""} \cup
    {Compose(pieces) : pieces \in UNION {[1..n -> 1..Len(SectionPool)] : n \in 1..MaxSections}}

(***************************************************************************)
(* The PDF path: _extract_text_from_pdf and _preprocess_text               *)
(***************************************************************************)
\* [\x00-\x1f\x7f-\x9f], for the control characters the page texts contain
ControlChars == Re(<<Cls(CharSet("\t\n\r\f"), 1, Some(1))>>)

\* control characters are replaced but whitespace runs keep their newlines
PreprocessKeepingLines(text) ==
    LET spaced == ReSub(Re(<<Cls(CharSet(" \t"), 1, None)>>), " ",
                        ReSub(Re(<<Cls(CharSet("\t\r\f"), 1, Some(1))>>), " ", text))
    IN  Strip(spaced)

\* the replace calls of lines 140-142 rewrite typographic dashes and quotes,
\* which the page texts do not contain
_preprocess_text(text) ==
    LET spaced == ReSub(Whitespace, " ", ReSub(ControlChars, " ", text))
    IN  Strip(spaced)

\* page.get_text() of every page, each followed by the page separator
RECURSIVE _extract_text_from_pdf(_)
_extract_text_from_pdf(pages) ==
    IF Len(pages) = 0 THEN ""
    ELSE _extract_text_from_pdf(SubSeq(pages, 1, Len(pages) - 1))
             \o pages[Len(pages)] \o "\n\n"

\* the text of a page: one product, two products with a separator line and an
\* explicit mention between them, no product, an empty page
PagePool ==
    <<SectionPool[1],
      SectionPool[2] \o "\n---\nPRODUIT 2: " \o SectionPool[1] \o "\n",
      "Conditions  générales\tde vente - tarif 2024",
      "">>

MaxPages == 2

PdfDocuments == UNION {[1..n -> Range(PagePool)] : n \in 0..MaxPages}

\* the reader and the preprocessing keep no state: computed once per document
CleanedPdf == [pages \in PdfDocuments |-> _preprocess_text(_extract_text_from_pdf(pages))]

Cleaned(pages) == CleanedPdf[pages]

\* the splitter keeps no state: the sections of an input text are computed once
TextSections == [text \in Texts |-> _split_into_product_sections(text)]

PdfSections == [text \in Range(CleanedPdf) |-> _split_into_product_sections(text)]

Sectioned(text) ==
    IF text \in DOMAIN TextSections THEN TextSections[text] ELSE PdfSections[text]

\* the extractor keeps no state either: the scan of a section is computed once
SectionScan ==
    [section \in UNION {Range(TextSections[text]) : text \in Texts} |-> Scan(section)]

PdfScan ==
    [section \in UNION {Range(PdfSections[text]) : text \in DOMAIN PdfSections} |->
        Scan(section)]

Scanned(text) ==
    IF text \in DOMAIN SectionScan THEN SectionScan[text] ELSE PdfScan[text]

\* a section without brand or without reference yields nothing
ProductWithoutGuards(text, source_path, section_idx, now) ==
    LET Product(scan) ==
            Some([id |-> _generate_product_id(source_path, section_idx, now),
                  name |-> scan.product_name,
                  brand |-> IF Len(scan.brands) = 0 THEN None ELSE scan.brands[1],
                  reference |-> IF Len(scan.references) = 0 THEN None
                                ELSE scan.references[1],
                  characteristics |-> scan.characteristics,
                  description |-> None, category |-> None, price |-> None,
                  currency |-> Some("EUR"),
                  source_document |-> Some(source_path),
                  extraction_confidence |->
                      _calculate_extraction_confidence(scan.brands, scan.references,
                                                       scan.characteristics)])
    IN  Product(Scanned(text))

\* None, or the Product of the section
_extract_single_product(text, source_path, section_idx, now) ==
    LET Product(brands, references, characteristics, product_name) ==
            IF Len(brands) = 0 THEN None
            ELSE IF Len(references) = 0 THEN None
            ELSE Some([id |-> _generate_product_id(source_path, section_idx, now),
                       name |-> product_name,
                       brand |-> brands[1],
                       reference |-> references[1],
                       characteristics |-> characteristics,
                       description |-> None, category |-> None, price |-> None,
                       currency |-> Some("EUR"),
                       source_document |-> Some(source_path),
                       extraction_confidence |->
                           _calculate_extraction_confidence(brands, references,
                                                            characteristics)])
        Extracted(scan) ==
            Product(scan.brands, scan.references, scan.characteristics, scan.product_name)
    IN  Extracted(Scanned(text))

\* an exception in a section ends the loop: the products found so far are returned
ProductsUntilFailure(text, source_path, now, raising) ==
    LET Products(sections) ==
            Flatten([k \in 1..Len(sections) |->
                        IF \E j \in 1..k : (j - 1) \in raising THEN <<>>
                        ELSE _extract_single_product(sections[k], source_path, k - 1, now)])
    IN  Products(Sectioned(text))

\* raising: the indexes of the sections in which _extract_single_product raises;
\* the exception is logged and the loop goes on with the next section
_extract_products_from_text(text, source_path, now, raising) ==
    LET Products(sections) ==
            Flatten([k \in 1..Len(sections) |->
                        IF (k - 1) \in raising THEN <<>>
                        ELSE _extract_single_product(sections[k], source_path, k - 1, now)])
    IN  Products(Sectioned(text))

extract_from_text(text, source_path, now, raising) ==
    /\ request' = [op |-> "extract_from_text", text |-> text, source_path |-> source_path]
    /\ backend' = [now |-> now, raising |-> raising]
    /\ trace' = [sections |-> Sectioned(text)]
    /\ response' = Returned("extract_from_text",
                            _extract_products_from_text(text, source_path, now, raising))
    /\ UNCHANGED <<collection, bm25_index, documents, products>>

(***************************************************************************)
(* Inputs of the extractor                                                 *)
(***************************************************************************)
SourcePaths == {"catalogue.txt"}

\* datetime.now() as the call reads it
Instants == {1, 2}

ExtractFromText ==
    /\ Idle
    /\ \E text \in Texts, source_path \in SourcePaths, now \in Instants :
          \E raising \in SUBSET (0..(Len(Sectioned(text)) - 1)) :
              extract_from_text(text, source_path, now, raising)
    /\ UNCHANGED writers

ExtractionNext == ExtractFromText \/ Return

SpecExtraction == RetrieverInit /\ [][ExtractionNext]_vars

(***************************************************************************)
(* ProductExtractor.extract_from_pdf                                       *)
(***************************************************************************)
\* pages: what PyMuPDF reads off the file; fault: None, or the exception
\* pymupdf.open raises; raising: the sections whose extraction raises
extract_from_pdf(pdf_path, pages, now, fault, raising) ==
    /\ request' = [op |-> "extract_from_pdf", pdf_path |-> pdf_path]
    /\ backend' = [pages |-> pages, now |-> now, fault |-> fault, raising |-> raising]
    /\ trace' = IF fault # None THEN [cleaned_text |-> "", sections |-> <<>>]
                ELSE [cleaned_text |-> Cleaned(pages), sections |-> Sectioned(Cleaned(pages))]
    /\ response' =
          IF fault # None
          THEN Raised("extract_from_pdf", "ProductExtractionError",
                      Some("PDF_EXTRACTION_ERROR"),
                      Some([file_path |-> pdf_path, error |-> fault[1]]))
          ELSE Returned("extract_from_pdf",
                        _extract_products_from_text(Cleaned(pages), pdf_path, now, raising))
    /\ UNCHANGED <<collection, bm25_index, documents, products>>

PdfPaths == {"catalogue.pdf", "docs/notice.pdf"}

PdfFaults == {None, Some("FileDataError")}

ExtractFromPdf ==
    /\ Idle
    /\ \E pdf_path \in PdfPaths, pages \in PdfDocuments, now \in Instants,
          fault \in PdfFaults :
          \E raising \in IF fault = None
                          THEN SUBSET (0..(Len(Sectioned(Cleaned(pages))) - 1))
                          ELSE {{}} :
              extract_from_pdf(pdf_path, pages, now, fault, raising)
    /\ UNCHANGED writers

PdfNext == ExtractFromPdf \/ Return

SpecPdf == RetrieverInit /\ [][PdfNext]_vars

(***************************************************************************)
(* The section splitter on its own, over texts whose fragments have the    *)
(* lengths on each side of the size filter                                 *)
(***************************************************************************)
\* s repeated n times
RECURSIVE Repeat(_, _)
Repeat(s, n) ==
    IF n = 0 THEN ""
    ELSE IF n % 2 = 1 THEN s \o Repeat(s, n - 1)
    ELSE LET Twice(half) == half \o half IN Twice(Repeat(s, n \div 2))

\* lengths of the fragments: one character, and the two sides of each limit
FragmentLengths ==
    <<1, MinSectionLen - 1, MinSectionLen, MinSectionLen + 1, MaxSectionLen,
      MaxSectionLen + 1>>

\* a fragment of the given length with no separator in it
Fragment(len) == Repeat("x", len)

MaxFragments == 3

\* longest text handed to the splitter
MaxTextLen == 2060

FragmentSeparators == <<"\n---\n", "\n  \nPRODUIT: ">>

RECURSIVE ComposeFragments(_)
ComposeFragments(lens) ==
    IF Len(lens) = 1 THEN Fragment(FragmentLengths[lens[1]])
    ELSE ComposeFragments(SubSeq(lens, 1, Len(lens) - 1))
             \o FragmentSeparators[(Len(lens) % Len(FragmentSeparators)) + 1]
             \o Fragment(FragmentLengths[lens[Len(lens)]])

RECURSIVE ComposedLen(_)
ComposedLen(lens) ==
    IF Len(lens) = 1 THEN FragmentLengths[lens[1]]
    ELSE ComposedLen(SubSeq(lens, 1, Len(lens) - 1))
             + Len(FragmentSeparators[(Len(lens) % Len(FragmentSeparators)) + 1])
             + FragmentLengths[lens[Len(lens)]]

\* the empty text, a text of blanks, and one to MaxFragments fragments with a
\* separator between two of them
SplitterTexts ==
    {"", "  \n "} \cup
    {ComposeFragments(lens) :
        lens \in {l \in UNION {[1..n -> 1..Len(FragmentLengths)] : n \in 1..MaxFragments} :
                     ComposedLen(l) <= MaxTextLen}}

\* trace.fragments: the sections the splitting loop ends with, before the size
\* filter
split_into_sections(text) ==
    /\ request' = [op |-> "_split_into_product_sections", text |-> text]
    /\ trace' = [fragments |-> SplitAll(split_patterns, <<text>>)]
    /\ response' = Returned("_split_into_product_sections",
                            SizeFilter(text, trace'.fragments))
    /\ UNCHANGED <<collection, bm25_index, documents, products, backend>>

SplitIntoSections ==
    /\ Idle
    /\ \E text \in SplitterTexts : split_into_sections(text)
    /\ UNCHANGED writers

SplitterNext == SplitIntoSections \/ Return

SpecSplitter == RetrieverInit /\ [][SplitterNext]_vars

(***************************************************************************)
(* rag_service: process_query and format_response                          *)
(***************************************************************************)
SourceLimit == 3
ContentLimit == 150

DefaultAnswer == "Je n'ai pas d'information pertinente sur ce sujet."

Apology == "Désolé, une erreur est survenue. Reformulez votre question."

\* retrieved documents: whitespace runs and a source; exactly ContentLimit
\* characters and no source; one character more than ContentLimit once its
\* whitespace runs are collapsed
DocPool ==
    {[page_content |-> "Perceuse  BOSCH\n\tGSB120-LI", source |-> Some("catalogue.pdf")],
     [page_content |-> Repeat("a", ContentLimit), source |-> None],
     [page_content |-> Repeat("b  ", 8) \o Repeat("c", ContentLimit - 15),
      source |-> Some("notice.pdf")]}

\* re.sub(r'\s+', ' ', page_content), computed once per document text
CollapsedContent ==
    [page_content \in {doc.page_content : doc \in DocPool} |->
        ReSub(Whitespace, " ", page_content)]

Collapsed(page_content) == CollapsedContent[page_content]

\* one entry of response["sources"]
SourceInfo(i, doc) ==
    [id |-> i,
     content |-> Take(Collapsed(doc.page_content), ContentLimit)
                     \o (IF Len(doc.page_content) > ContentLimit THEN "..." ELSE ""),
     metadata |-> OrElse(doc.source, "Document interne")]

\* every retrieved document is listed
FormatAllSources(result) ==
    [result |-> OrElse(result.result, DefaultAnswer),
     sources |-> [i \in 1..Len(result.source_documents) |->
                     SourceInfo(i, result.source_documents[i])],
     status |-> "success"]

\* result: the dict the chain returns; result.result is None when the key is absent
format_response(result) ==
    [result |-> OrElse(result.result, DefaultAnswer),
     sources |-> [i \in 1..Len(Take(result.source_documents, SourceLimit)) |->
                     SourceInfo(i, result.source_documents[i])],
     status |-> "success"]

\* the last three exchanges, as the chain receives them
ChatHistory(conversation_history) ==
    LET Lines(last) == [k \in 1..Len(last) |-> "Q: " \o last[k][1] \o "\nR: " \o last[k][2]]
    IN  Join("\n", Lines(SubSeq(conversation_history,
                                Len(conversation_history) - Min(3, Len(conversation_history)) + 1,
                                Len(conversation_history))))

\* fault: None, or the step of the try block that raises; result: what
\* qa.invoke(inputs) returns when nothing raises
process_query(query, conversation_history, fault, result) ==
    /\ request' = [op |-> "process_query", query |-> query,
                   conversation_history |-> conversation_history]
    /\ backend' = [fault |-> fault, result |-> result]
    /\ trace' = [memory |-> conversation_history # None /\ Len(conversation_history[1]) > 0,
                 inputs |-> IF conversation_history # None /\ Len(conversation_history[1]) > 0
                            THEN [query |-> query,
                                  chat_history |-> Some(ChatHistory(conversation_history[1]))]
                            ELSE [query |-> query, chat_history |-> None]]
    /\ response' = Returned("process_query",
                            IF fault = None THEN format_response(result)
                            ELSE [result |-> Apology, sources |-> <<>>, status |-> "error"])
    /\ UNCHANGED <<collection, bm25_index, documents, products>>

(***************************************************************************)
(* Inputs of process_query                                                 *)
(***************************************************************************)
MaxSourceDocs == 4

ChainAnswers == {None, Some("La perceuse GSB120-LI a une puissance de 120 W.")}

ChainResults ==
    {[result |-> answer, source_documents |-> docs] :
        answer \in ChainAnswers,
        docs \in UNION {[1..n -> DocPool] : n \in 0..MaxSourceDocs}}

\* the chain did not return
NoChainResult == [result |-> None, source_documents |-> <<>>]

RagQueries == {"Quelle est la puissance de la GSB120-LI ?", ""}

Histories ==
    {None, Some(<<>>),
     Some(<<<<"q1", "r1">>, <<"q2", "r2">>, <<"q3", "r3">>, <<"q4", "r4">>>>)}

\* load_documents_cached, get_retriever, get_rag_chain, qa.invoke
QueryFaults == {None, Some("load"), Some("retriever"), Some("chain"), Some("invoke")}

ProcessQuery ==
    /\ Idle
    /\ \E query \in RagQueries, conversation_history \in Histories, fault \in QueryFaults :
          \E result \in IF fault = None THEN ChainResults
                         ELSE {NoChainResult} :
              process_query(query, conversation_history, fault, result)
    /\ UNCHANGED writers

RagNext == ProcessQuery \/ Return

SpecRag == RetrieverInit /\ [][RagNext]_vars

(***************************************************************************)
(* MultiFormatProcessor                                                    *)
(***************************************************************************)
\* MultiFormatProcessor.supported_formats: the extensions that have a handler
HandlerFormats == {".pdf", ".xlsx", ".xls", ".json", ".xml", ".txt"}

\* settings.ingestion.supported_formats
supported_formats == {".pdf", ".xlsx", ".json", ".xml", ".txt"}

max_file_size_mb == 100

\* Path(file_path).suffix
Suffix(path) ==
    LET Cut(name, dots) == IF dots = {} THEN "" ELSE SubSeq(name, SetMax(dots), Len(name))
        Name(name) == Cut(name, {i \in 2..Len(name) : Ch(name, i) = "."})
        Last(parts) == Name(parts[Len(parts)])
    IN  Last(ReSplit(Re(<<Lit("/")>>), path))

Failed(exc, message) == [exc |-> Some(exc), message |-> message, value |-> None]

Done(value) == [exc |-> None, message |-> "", value |-> Some(value)]

\* file: what the file system holds at file.path
_validate_file(file) ==
    LET Format(suffix) ==
            IF Lower(suffix) \notin supported_formats
            THEN Failed("DocumentProcessingError", "Unsupported format: " \o suffix)
            ELSE Done("valid")
    IN  IF ~file.exists
        THEN Failed("DocumentProcessingError", "File not found: " \o file.path)
        ELSE IF ~file.is_file
        THEN Failed("DocumentProcessingError", "Path is not a file: " \o file.path)
        ELSE IF file.size_mb > max_file_size_mb
        THEN Failed("DocumentProcessingError", "File too large")
        ELSE Format(Suffix(file.path))

_detect_document_type(file_path) ==
    LET Type(suffix) ==
            IF suffix = ".pdf" THEN "pdf"
            ELSE IF suffix \in {".xlsx", ".xls"} THEN "excel"
            ELSE IF suffix = ".json" THEN "json"
            ELSE IF suffix = ".xml" THEN "xml"
            ELSE "text"
    IN  Type(Lower(Suffix(file_path)))

\* open(file_path, 'rb') raises for a path that cannot be read
_create_metadata(file, doc_type) ==
    IF ~file.exists THEN Failed("FileNotFoundError", "No such file or directory")
    ELSE IF ~file.is_file THEN Failed("IsADirectoryError", "Is a directory")
    ELSE IF ~file.readable THEN Failed("PermissionError", "Permission denied")
    ELSE Done([file_path |-> file.path,
               file_name |-> file.path,
               document_type |-> doc_type,
               file_size |-> Len(file.content),
               checksum |-> <<"md5", file.content>>])

\* the handler of the extension. fault: None, or the exception raised while the
\* file is parsed; parsed: the products a structured or PDF document yields
Processor(file, now, fault, parsed) ==
    IF fault # None
    THEN Failed(IF _detect_document_type(file.path) = "pdf" THEN "ProductExtractionError"
                ELSE "DocumentProcessingError",
                "Failed to process file: " \o file.path)
    ELSE IF _detect_document_type(file.path) = "text"
    THEN Done([content |-> file.content,
               products |-> _extract_products_from_text(file.content, file.path, now, {})])
    ELSE Done([content |-> file.content, products |-> parsed])

\* the try block of process_document
Processed(file, now, fault, parsed) ==
    LET Try(validated, metadata, suffix, handled) ==
            IF validated.exc # None THEN validated
            ELSE IF metadata.exc # None THEN metadata
            ELSE IF Lower(suffix) \notin HandlerFormats
            THEN Failed("DocumentProcessingError", "Unsupported file format: " \o suffix)
            ELSE IF handled.exc # None THEN handled
            ELSE Done([content |-> handled.value[1].content,
                       metadata |-> metadata.value[1],
                       extracted_products |-> handled.value[1].products,
                       processing_status |-> "completed",
                       error_message |-> None])
    IN  Try(_validate_file(file),
            _create_metadata(file, _detect_document_type(file.path)),
            Suffix(file.path),
            Processor(file, now, fault, parsed))

\* what process_document hands to its caller
\* attempt: how the try block ended; the except handler builds the error document
DocumentResponse(file, attempt) ==
    LET fallback == _create_metadata(file, "pdf")
    IN  IF attempt.exc = None
        THEN Returned("process_document", attempt.value[1])
        ELSE IF fallback.exc # None
        THEN Raised("process_document", fallback.exc[1], None, None)
        ELSE Returned("process_document",
                      [content |-> "",
                       metadata |-> fallback.value[1],
                       extracted_products |-> <<>>,
                       processing_status |-> "error",
                       error_message |-> Some(attempt.message)])

process_document(file, now, fault, parsed) ==
    /\ request' = [op |-> "process_document", file_path |-> file.path]
    /\ backend' = [file |-> file, now |-> now, fault |-> fault, parsed |-> parsed]
    /\ trace' = [attempt |-> Processed(file, now, fault, parsed)]
    /\ response' = DocumentResponse(file, trace'.attempt)
    /\ UNCHANGED <<collection, bm25_index, documents, products>>

(***************************************************************************)
(* Inputs of the processor                                                 *)
(***************************************************************************)
FilePaths ==
    {"doc.pdf", "doc.xlsx", "doc.xls", "doc.json", "doc.xml", "doc.txt", "doc.csv",
     "DOC.PDF"}

FileContents == {"", SectionPool[1]}

\* sizes in MB on each side of the limit
FileSizes == {1, 100, 101}

\* what the file system can hold at a path: nothing, a directory, a file that
\* cannot be opened, a readable file
Files ==
    {[path |-> path, exists |-> FALSE, is_file |-> FALSE, readable |-> FALSE,
      size_mb |-> 0, content |-> ""] : path \in FilePaths}
    \cup {[path |-> path, exists |-> TRUE, is_file |-> FALSE, readable |-> FALSE,
           size_mb |-> 0, content |-> ""] : path \in FilePaths}
    \cup {[path |-> path, exists |-> TRUE, is_file |-> TRUE, readable |-> readable,
           size_mb |-> size_mb, content |-> content] :
             path \in FilePaths, readable \in BOOLEAN, size_mb \in FileSizes,
             content \in FileContents}

HandlerFaults == {None, Some("parse")}

ParsedProducts == {<<>>, <<ProductBosch>>}

ProcessDocument ==
    /\ Idle
    /\ \E file \in Files, now \in Instants, fault \in HandlerFaults,
          parsed \in ParsedProducts :
          process_document(file, now, fault, parsed)
    /\ UNCHANGED writers

IngestionNext == ProcessDocument \/ Return

SpecIngestion == RetrieverInit /\ [][IngestionNext]_vars

(***************************************************************************)
(* Properties of the extractor                                             *)
(***************************************************************************)
Extracted == request.op = "extract_from_text" /\ response.kind = "returned"

\* the indexes (from 0) of the sections that have no validated brand or no
\* validated reference once the candidates are deduplicated
Unbranded ==
    {k \in 0..(Len(trace.sections) - 1) :
        \/ Len(Scanned(trace.sections[k + 1]).brands) = 0
        \/ Len(Scanned(trace.sections[k + 1]).references) = 0}

\* the section index a product was extracted from, as its identifier records it
SectionOf(product) == product.id[2]

\* C1: every product extraction returns has a brand and a reference, and a section
\* whose validated, deduplicated brand list or reference list is empty contributes
\* no product.
C1_BrandAndReferenceRequired ==
    Extracted =>
        /\ \A i \in 1..Len(response.results) :
              /\ response.results[i].brand # None
              /\ response.results[i].reference # None
        /\ \A i \in 1..Len(response.results) :
              SectionOf(response.results[i]) \notin Unbranded

\* a text of three sections, nothing raising: the first has a brand and no
\* reference, the last has a reference and no valid brand, the middle one is the
\* only product
C1_Witness ==
    /\ Extracted
    /\ Len(trace.sections) = 3
    /\ backend.raising = {}
    /\ Unbranded = {0, 2}
    /\ Len(Scanned(trace.sections[1]).brands) > 0
    /\ Len(Scanned(trace.sections[3]).references) > 0
    /\ Len(response.results) = 1
    /\ SectionOf(response.results[1]) = 1
    /\ response.results[1].brand # None
    /\ response.results[1].reference # None

\* the products of the sections that did not raise, in section order
SurvivingProducts ==
    LET kept == SelectSeq([k \in 1..Len(trace.sections) |-> k],
                          LAMBDA k : (k - 1) \notin backend.raising)
    IN  Flatten([i \in 1..Len(kept) |->
                    _extract_single_product(trace.sections[kept[i]], request.source_path,
                                            kept[i] - 1, backend.now)])

\* C2: a section whose extraction raises is skipped and the others are still
\* processed: the list returned is, in section order, the products of the sections
\* that did not raise, wherever the raising section stands.
C2_SectionFailureIsolated ==
    request.op = "extract_from_text" =>
        /\ response.kind = "returned"
        /\ response.results = SurvivingProducts

\* three sections that each hold a product, the first one raising: the two after
\* it are returned in order
C2_Witness ==
    /\ Extracted
    /\ Len(trace.sections) = 3
    /\ Unbranded = {}
    /\ backend.raising = {0}
    /\ Len(response.results) = 2
    /\ SectionOf(response.results[1]) = 1
    /\ SectionOf(response.results[2]) = 2

(***************************************************************************)
(* Properties of process_document                                          *)
(***************************************************************************)
\* the try block of process_document ended with an exception
DocumentFailed == request.op = "process_document" /\ trace.attempt.exc # None

\* C3: whatever makes process_document fail (file missing or unreadable, file too
\* large, extension not supported, exception in the format handler), the caller
\* receives a document with processing_status "error" and no extracted product,
\* and no exception leaves process_document.
C3_DocumentFailureIsolated ==
    DocumentFailed =>
        /\ response.kind = "returned"
        /\ response.results.processing_status = "error"
        /\ response.results.extracted_products = <<>>

(***************************************************************************)
(* Properties of search_products                                           *)
(***************************************************************************)
Searched(stage) == request.op = "search" /\ request.stage = stage

SearchReturned == request.op = "search" /\ response.kind = "returned"

\* the similarities the embedding index reported for the stored entries of product id
SimilaritiesOf(id) ==
    {One - backend.dist[collection[j].document] :
        j \in {k \in 1..Len(collection) : collection[k].metadata.product_id = id}}

\* s contains q, compared case-insensitively
ContainsIgnoreCase(s, q) == Contains(Lower(s), Lower(q))

\* C4: a characteristic_matching search never returns a (product, score) pair
\* whose semantic similarity is below 0.8, whatever threshold the caller passed and
\* whatever the index holds.
C4_CharacteristicThresholdLaw ==
    (Searched("characteristic_matching") /\ response.kind = "returned") =>
        \A i \in 1..Len(response.results) :
            /\ response.results[i].score >= 800
            /\ response.results[i].score \in SimilaritiesOf(response.results[i].product.id)

\* a caller threshold below 0.8, a stored entry of similarity 0.75 left out and
\* one of similarity 0.9 returned
C4_Witness ==
    /\ Searched("characteristic_matching")
    /\ response.kind = "returned"
    /\ request.similarity_threshold = 700
    /\ request.filters = NoFilters
    /\ \E d \in DOMAIN backend.dist : backend.dist[d] = 250
    /\ Len(response.results) = 1
    /\ response.results[1].score = 900

\* the scores of product id in a result list
ScoresOf(results, id) ==
    {results[i].score : i \in {k \in 1..Len(results) : results[k].product.id = id}}

\* C5: in the general/hybrid search a product present in the semantic results
\* (score s) and in the lexical results (score l) gets a combined score c with
\* max(0.7 s, 0.3 l) <= c <= 0.7 s + 0.3 l, also when the same product id was
\* added more than once.
C5_FusionLaw ==
    (SearchReturned /\ IsHybrid(request.stage)) =>
        \A i \in 1..Len(response.results) :
            LET id == response.results[i].product.id
                c == response.results[i].score
            IN  \A s \in ScoresOf(trace.semantic, id), l \in ScoresOf(trace.lexical, id) :
                    /\ 7 * s <= 10 * c
                    /\ 3 * l <= 10 * c
                    /\ 10 * c <= 7 * s + 3 * l

\* the combined score the fusion rule gives product id: a product absent from
\* a result set contributes 0 for that set
FusionScores(id) ==
    LET sem == IF ScoresOf(trace.semantic, id) = {} THEN {0}
               ELSE ScoresOf(trace.semantic, id)
        lex == IF ScoresOf(trace.lexical, id) = {} THEN {0}
               ELSE ScoresOf(trace.lexical, id)
    IN  {(7 * s + 3 * l) \div 10 : s \in sem, l \in lex}

ResultIds(results) == {results[i].product.id : i \in 1..Len(results)}

\* C6: the general/hybrid result is the union of the semantic and the lexical
\* candidates, each product id once, each with score 0.7 semantic + 0.3 lexical
\* (0 for the set it is absent from), by non-increasing score, cut to maxResults.
C6_FusionRule ==
    (SearchReturned /\ IsHybrid(request.stage)) =>
        LET results == response.results
            union == ResultIds(trace.semantic) \cup ResultIds(trace.lexical)
        IN  /\ Len(results) <= request.max_results
            /\ Len(results) = Min(Cardinality(union), request.max_results)
            /\ ResultIds(results) \subseteq union
            /\ \A i, j \in 1..Len(results) :
                  i < j => /\ results[i].product.id # results[j].product.id
                           /\ results[i].score >= results[j].score
            /\ \A i \in 1..Len(results) :
                  results[i].score \in FusionScores(results[i].product.id)
            /\ \A id \in union \ ResultIds(results) :
                  \A i \in 1..Len(results), c \in FusionScores(id) : c <= results[i].score

\* the lexical structures come from one rebuild
LexicalAligned == bm25_index # None => Len(products) = Len(bm25_index[1].corpus)

\* C7: a search whose stage is none of the three named stages returns the full
\* hybrid-fusion ranking computed with the caller's threshold; it does not end in
\* an error when the index and the backends are healthy.
C7_GeneralStageReturnsFusion ==
    (request.op = "search" /\ IsHybrid(request.stage)
        /\ backend.fault = None /\ LexicalAligned) =>
        /\ response.kind = "returned"
        /\ response.results =
              Take(_combine_search_results(trace.semantic, trace.lexical),
                   request.max_results)
        /\ \A i \in 1..Len(trace.semantic) :
              trace.semantic[i].score >= request.similarity_threshold

\* C8: for every stage, when the index or embedding backend raises during a
\* search the caller receives a VectorStoreError with code SEARCH_ERROR whose
\* context carries the query, the stage and the cause; no other kind of exception
\* escapes search.
C8_SearchFailureSurfaced ==
    request.op = "search" =>
        /\ backend.fault # None =>
              /\ response.kind = "raised"
              /\ response.exc = Some("VectorStoreError")
              /\ response.error_code = Some("SEARCH_ERROR")
              /\ response.context = Some([query |-> request.query,
                                          stage |-> request.stage,
                                          error |-> backend.fault[1]])
        /\ response.kind = "raised" => response.exc = Some("VectorStoreError")

\* C9: a brand_matching search returns only products whose brand name or
\* normalized brand name contains the query, compared case-insensitively, and only
\* with semantic similarity >= the caller's threshold; with a BOSCH and a MAKITA
\* product indexed, the query "BOSCH" never returns the MAKITA product.
C9_BrandMatching ==
    (Searched("brand_matching") /\ response.kind = "returned") =>
        \A i \in 1..Len(response.results) :
            LET r == response.results[i]
            IN  /\ \/ ContainsIgnoreCase(r.product.brand.name, request.query)
                   \/ ContainsIgnoreCase(r.product.brand.normalized_name, request.query)
                /\ r.score >= request.similarity_threshold
                /\ r.score \in SimilaritiesOf(r.product.id)
                /\ request.query = "BOSCH" => r.product.brand.normalized_name # "MAKITA"

\* BOSCH and MAKITA are both indexed, the query "BOSCH" returns the BOSCH product
C9_Witness ==
    /\ Searched("brand_matching")
    /\ response.kind = "returned"
    /\ request.query = "BOSCH"
    /\ request.filters = NoFilters
    /\ request.max_results = 2
    /\ \E j \in 1..Len(collection) : collection[j].metadata.brand_normalized = "MAKITA"
    /\ \E j \in 1..Len(collection) : collection[j].metadata.brand_normalized = "BOSCH"
    /\ Len(response.results) = 1
    /\ response.results[1].product.brand.normalized_name = "BOSCH"

\* the query normalization the reference stage is specified with
UppercaseNoDashNoSpace(query) == Upper(ReplaceChar(ReplaceChar(query, " ", ""), "-", ""))

ReferenceFilter(metadata, query) ==
    \/ Contains(metadata.reference, query)
    \/ Contains(metadata.reference_normalized, UppercaseNoDashNoSpace(query))

\* C10: a reference_matching search uppercases the query and removes '-' and
\* spaces; it returns only products whose raw reference contains the query or
\* whose normalized reference contains the normalized query, each with similarity
\* >= the caller's threshold; a query equal to a stored raw reference passes the
\* filter for that product.
C10_ReferenceMatching ==
    Searched("reference_matching") =>
        /\ response.kind = "returned" =>
              \A i \in 1..Len(response.results) :
                  LET r == response.results[i]
                  IN  /\ \/ Contains(r.product.reference.reference, request.query)
                         \/ Contains(r.product.reference.normalized_reference,
                                     UppercaseNoDashNoSpace(request.query))
                      /\ r.score >= request.similarity_threshold
                      /\ r.score \in SimilaritiesOf(r.product.id)
        /\ \A j \in 1..Len(collection) :
              /\ j \in Range(trace.candidates) =>
                    ReferenceFilter(collection[j].metadata, request.query)
              /\ (request.filters = NoFilters
                    /\ ReferenceFilter(collection[j].metadata, request.query)) =>
                    j \in Range(trace.candidates)
              /\ (request.filters = NoFilters
                    /\ collection[j].metadata.reference = request.query) =>
                    j \in Range(trace.candidates)

\* the query "hs 7100" reaches the product of reference HS7100 through the
\* normalized query, and another stored product is left out
C10_Witness ==
    /\ Searched("reference_matching")
    /\ response.kind = "returned"
    /\ request.query = "hs 7100"
    /\ Len(collection) = 2
    /\ Len(trace.candidates) = 1
    /\ Len(response.results) = 1
    /\ response.results[1].product.reference.reference = "HS7100"

\* the filters as they are specified: a conjunction over the supplied keys
SatisfiesFilters(product, filters) ==
    /\ "brand_name" \in DOMAIN filters => product.brand.name = filters.brand_name
    /\ "category" \in DOMAIN filters => product.category = Some(filters.category)
    /\ "min_price" \in DOMAIN filters =>
          product.price # None /\ product.price[1] >= filters.min_price
    /\ "max_price" \in DOMAIN filters =>
          product.price # None /\ product.price[1] <= filters.max_price

StoredProduct(j) ==
    _reconstruct_product_from_metadata(collection[j].metadata, collection[j].document)

\* C11: whatever the stage, every product a search returns satisfies all the
\* supplied filters (brand_name, category, min_price, max_price) together, and
\* the filters are applied the same way in every stage: a stored product that
\* passes the stage's own criterion and satisfies the filters is not removed by
\* them.
C11_FiltersIndependentOfStage ==
    request.op = "search" =>
        /\ response.kind = "returned" =>
              \A i \in 1..Len(response.results) :
                  SatisfiesFilters(response.results[i].product, request.filters)
        /\ \A j \in Range(Candidates(StageWhere(request.query, request.stage, NoFilters))) :
              SatisfiesFilters(StoredProduct(j), request.filters) =>
                  j \in Range(trace.candidates)

Added == request.op = "add" /\ response.kind = "returned" /\ Len(request.products) > 0

\* C12: once an add call of a non-empty product list has returned without error,
\* the lexical index has been rebuilt over all the documents in the embedding
\* store: the tokenized corpus, the document list and the product snapshots hold
\* exactly one entry per stored document, in store order, the documents of
\* earlier add calls included.
C12_LexicalIndexRebuiltOverStore ==
    Added =>
        /\ bm25_index # None
        /\ bm25_index[1].corpus = [i \in 1..Len(collection) |-> Tokenize(collection[i].document)]
        /\ documents = [i \in 1..Len(collection) |-> collection[i].document]
        /\ products = [i \in 1..Len(collection) |-> StoredProduct(i)]

StatsReturned == request.op = "stats" /\ "total_documents" \in DOMAIN response.results

\* C13: the index is append-only. An add call that returns stores one more
\* document per product of its list, whether or not a stored document already
\* carries the same id; no operation removes or replaces a stored document, so
\* the document count never decreases; and the count that stats reports is the
\* number of documents stored so far.
C13_AppendOnly ==
    [][/\ Len(collection') >= Len(collection)
       /\ SubSeq(collection', 1, Len(collection)) = collection
       /\ (request'.op = "add" /\ response'.kind = "returned") =>
              Len(collection') = Len(collection) + Len(request'.products)
       /\ (request'.op = "stats" /\ "total_documents" \in DOMAIN response'.results) =>
              response'.results.total_documents = Len(collection')]_vars

\* two documents with the same id are stored and stats counts both
C13_Witness ==
    /\ StatsReturned
    /\ response.results.total_documents = 2
    /\ Len(collection) = 2
    /\ collection[1].id = collection[2].id

\* between its insert into the embedding store and the end of its rebuild
InAddSection(w) == writers[w].pc \in {"get", "index", "documents", "products"}

AllReturned == \A w \in Writers : writers[w].pc = "idle"

\* C14: concurrent add calls are serialized. The {embedding insert, lexical
\* rebuild} steps of two calls never interleave: at most one call is between
\* its insert and the end of its rebuild; and once every call has returned, the
\* installed lexical index covers every document the calls have inserted.
C14_AddSerialized ==
    /\ \A v, w \in Writers : (InAddSection(v) /\ InAddSection(w)) => v = w
    /\ (AllReturned /\ Len(collection) > 0) =>
          /\ bm25_index # None
          /\ bm25_index[1].corpus =
                 [i \in 1..Len(collection) |-> Tokenize(collection[i].document)]
          /\ documents = [i \in 1..Len(collection) |-> collection[i].document]
          /\ products = [i \in 1..Len(collection) |-> StoredProduct(i)]

\* C14, second part alone: once every call has returned the installed index
\* covers the store
C14_IndexCoversBothAdds ==
    (AllReturned /\ Len(collection) > 0) =>
        /\ bm25_index # None
        /\ Len(bm25_index[1].corpus) = Len(collection)
        /\ Len(documents) = Len(collection)
        /\ Len(products) = Len(collection)

\* min(n / 5, 1) in thousandths
CharacteristicTerm(n) == IF n >= 5 THEN One ELSE (n * One) \div 5

\* C15: every product extraction returns has extraction_confidence equal to
\* 0.4 * (confidence of its brand) + 0.4 * (confidence of its reference)
\* + 0.2 * min(n / 5, 1), n being the number of its deduplicated
\* characteristics, and the value lies in [0, 1].
C15_ExtractionConfidence ==
    Extracted =>
        \A i \in 1..Len(response.results) :
            LET product == response.results[i]
            IN  /\ One * product.extraction_confidence =
                       400 * product.brand.confidence
                       + 400 * product.reference.confidence
                       + 200 * CharacteristicTerm(Len(product.characteristics))
                /\ product.extraction_confidence >= 0
                /\ product.extraction_confidence <= One

\* a product with six characteristics (the term saturates) next to one with two
C15_Witness ==
    /\ Extracted
    /\ \E i \in 1..Len(response.results) :
          /\ Len(response.results[i].characteristics) = 6
          /\ response.results[i].brand.confidence = 630
          /\ response.results[i].reference.confidence = 760
          /\ response.results[i].extraction_confidence = 756
    /\ \E i \in 1..Len(response.results) :
          /\ Len(response.results[i].characteristics) = 2
          /\ response.results[i].extraction_confidence = 712

(***************************************************************************)
(* Properties of the section splitter                                      *)
(***************************************************************************)
SectionsSplit == request.op = "_split_into_product_sections" /\ response.kind = "returned"

InSizeRange(section) == 50 <= Len(section) /\ Len(section) <= 2000

\* the fragments the splitting loop produced that pass the size filter, in order
Surviving == SelectSeq(trace.fragments, InSizeRange)

\* C16: for every input text, the empty text and the texts whose fragments all
\* fail the size filter included, the splitter returns a non-empty sequence of
\* sections, in the order of the text; when no fragment survives the size filter
\* the result is exactly the one-element sequence holding the original text.
C16_SplitterNeverEmpty ==
    SectionsSplit =>
        /\ Len(response.results) >= 1
        /\ Len(Surviving) = 0 => response.results = <<request.text>>
        /\ Len(Surviving) > 0 =>
              \E pos \in [1..Len(response.results) -> 1..Len(trace.fragments)] :
                  /\ \A k \in 1..Len(response.results) :
                        response.results[k] = trace.fragments[pos[k]]
                  /\ \A k \in 1..(Len(response.results) - 1) : pos[k] < pos[k + 1]

\* a text of two fragments, both too short: the original text comes back whole
C16_Witness ==
    /\ SectionsSplit
    /\ Len(trace.fragments) = 2
    /\ Len(Surviving) = 0
    /\ response.results = <<request.text>>
    /\ Len(request.text) > Len(trace.fragments[1]) + Len(trace.fragments[2])

\* the empty text: no fragment at all, and the empty text comes back
C16_WitnessEmptyText ==
    /\ SectionsSplit
    /\ request.text = ""
    /\ trace.fragments = <<>>
    /\ response.results = <<"">>

\* C17 as stated: a fragment is in the splitter's output exactly when its
\* length lies in [50, 2000]; a fragment of length 49 never appears in the
\* output.
C17_SizeFilterExact ==
    SectionsSplit =>
        /\ \A k \in 1..Len(trace.fragments) :
              (\E j \in 1..Len(response.results) : response.results[j] = trace.fragments[k])
                  <=> InSizeRange(trace.fragments[k])
        /\ \A j \in 1..Len(response.results) : Len(response.results[j]) # 49

\* C17, amended: when at least one fragment has its length in [50, 2000], the
\* output is exactly the fragments whose length lies in [50, 2000], in order (a
\* fragment of length 49 or 2001 is dropped, one of length 50 or 2000 is kept);
\* when none has, the output is the original text, whatever its length.
C17_SizeFilterExactUnlessFallback ==
    SectionsSplit =>
        /\ Len(Surviving) > 0 =>
              /\ response.results = Surviving
              /\ \A j \in 1..Len(response.results) :
                    /\ Len(response.results[j]) >= 50
                    /\ Len(response.results[j]) <= 2000
        /\ Len(Surviving) = 0 => response.results = <<request.text>>

\* fragments of 50 and 49 characters: the one of 50 is kept, the one of 49 is
\* dropped
C17_Witness ==
    /\ SectionsSplit
    /\ Len(trace.fragments) = 2
    /\ Len(trace.fragments[1]) = 50
    /\ Len(trace.fragments[2]) = 49
    /\ response.results = <<trace.fragments[1]>>

\* a fragment of exactly 2000 characters is kept, one of 49 next to it is dropped
C17_WitnessUpperLimit ==
    /\ SectionsSplit
    /\ Len(trace.fragments) = 2
    /\ Len(trace.fragments[1]) = 2000
    /\ Len(trace.fragments[2]) = 49
    /\ response.results = <<trace.fragments[1]>>

(***************************************************************************)
(* Properties of the candidate lists                                       *)
(***************************************************************************)
\* the validated candidates every pattern produced for a section, in pattern
\* order then match order, before deduplication
SectionCandidates ==
    [section \in DOMAIN SectionScan |->
        [brands |-> Flatten([p \in 1..Len(brand_patterns) |->
                                BrandCandidates(brand_patterns[p], section)]),
         references |-> Flatten([p \in 1..Len(reference_patterns) |->
                                    ReferenceCandidates(reference_patterns[p], section)]),
         characteristics |-> Flatten([p \in 1..Len(characteristic_patterns) |->
                                         CharacteristicCandidates(characteristic_patterns[p],
                                                                  section)])]]

BrandKeys(brands) == [i \in 1..Len(brands) |-> brands[i].normalized_name]

ReferenceKeys(references) == [i \in 1..Len(references) |-> references[i].normalized_reference]

CharacteristicKeys(characteristics) ==
    [i \in 1..Len(characteristics) |->
        <<characteristics[i].normalized_name, characteristics[i].normalized_value>>]

PairwiseDistinct(keys) == \A i, j \in 1..Len(keys) : keys[i] = keys[j] => i = j

\* every retained entry is the first candidate of its key
FirstOfTheirKey(retained, retainedKeys, candidates, candidateKeys) ==
    \A i \in 1..Len(retained) :
        \E k \in 1..Len(candidates) :
            /\ candidates[k] = retained[i]
            /\ candidateKeys[k] = retainedKeys[i]
            /\ \A j \in 1..(k - 1) : candidateKeys[j] # retainedKeys[i]

\* the positions of the first candidate of every key, in increasing order
FirstPositions(keys) ==
    SelectSeq([k \in 1..Len(keys) |-> k],
              LAMBDA k : \A j \in 1..(k - 1) : keys[j] # keys[k])

\* C18: deduplication is by normalized key and keeps the first occurrence. For
\* every section, the retained brand list has at most 3 entries with pairwise
\* distinct normalized names, each the first candidate of its key (a brand
\* matched twice gives one entry); the retained reference list has at most 3
\* entries with pairwise distinct normalized values, each the first candidate of
\* its key; the characteristics have pairwise distinct (normalized_name,
\* normalized_value) and are the first candidates of each key in order of
\* detection.
C18_DeduplicationKeepsFirst ==
    Extracted =>
        \A n \in 1..Len(trace.sections) :
            LET scan == Scanned(trace.sections[n])
                cand == SectionCandidates[trace.sections[n]]
            IN  /\ Len(scan.brands) <= 3
                /\ PairwiseDistinct(BrandKeys(scan.brands))
                /\ FirstOfTheirKey(scan.brands, BrandKeys(scan.brands),
                                   cand.brands, BrandKeys(cand.brands))
                /\ Len(scan.references) <= 3
                /\ PairwiseDistinct(ReferenceKeys(scan.references))
                /\ FirstOfTheirKey(scan.references, ReferenceKeys(scan.references),
                                   cand.references, ReferenceKeys(cand.references))
                /\ PairwiseDistinct(CharacteristicKeys(scan.characteristics))
                /\ scan.characteristics =
                       [i \in 1..Len(FirstPositions(CharacteristicKeys(cand.characteristics)))
                           |-> cand.characteristics[
                                   FirstPositions(CharacteristicKeys(cand.characteristics))[i]]]

\* a section in which the brand Makita is matched more than once, the reference
\* GSB120 more than once and the characteristic "poids 2 kg" twice: each is
\* retained once
C18_Witness ==
    /\ Extracted
    /\ \E n \in 1..Len(trace.sections) :
          LET scan == Scanned(trace.sections[n])
              cand == SectionCandidates[trace.sections[n]]
          IN  /\ Cardinality({k \in 1..Len(cand.brands) : cand.brands[k].name = "Makita"}) >= 2
              /\ Cardinality({i \in 1..Len(scan.brands) :
                                 scan.brands[i].normalized_name = "MAKITA"}) = 1
              /\ Cardinality({k \in 1..Len(cand.references) :
                                 cand.references[k].normalized_reference = "GSB120"}) >= 2
              /\ Cardinality({i \in 1..Len(scan.references) :
                                 scan.references[i].normalized_reference = "GSB120"}) = 1
              /\ Cardinality({k \in 1..Len(cand.characteristics) :
                                 cand.characteristics[k].normalized_name = "poids"}) >= 2
              /\ Cardinality({i \in 1..Len(scan.characteristics) :
                                 scan.characteristics[i].normalized_name = "poids"}) = 1
              /\ Len(cand.brands) > 3

\* C19: the brand and the reference stored in a product are the best-scoring
\* ones: their confidence is at least that of every validated brand, respectively
\* reference, candidate any pattern produced for the product's section.
C19_BestScoringStored ==
    Extracted =>
        \A i \in 1..Len(response.results) :
            LET product == response.results[i]
                cand == SectionCandidates[trace.sections[SectionOf(product) + 1]]
            IN  /\ \A k \in 1..Len(cand.brands) :
                      cand.brands[k].confidence <= product.brand.confidence
                /\ \A k \in 1..Len(cand.references) :
                      cand.references[k].confidence <= product.reference.confidence

(***************************************************************************)
(* Properties of the product snapshots                                     *)
(***************************************************************************)
\* the Product handed to add_products under the given id
AddedProduct(id) == CHOOSE p \in ProductPool : p.id = id

\* C20: every product a search returns equals the Product that was added under
\* its id, in id, name, brand, reference, characteristics, category, price and
\* extraction_confidence.
C20_SnapshotRoundTrip ==
    SearchReturned =>
        \A i \in 1..Len(response.results) :
            LET returned == response.results[i].product
                added == AddedProduct(response.results[i].product.id)
            IN  /\ returned.id = added.id
                /\ returned.name = added.name
                /\ returned.brand = added.brand
                /\ returned.reference = added.reference
                /\ returned.characteristics = added.characteristics
                /\ returned.category = added.category
                /\ returned.price = added.price
                /\ returned.extraction_confidence = added.extraction_confidence

(***************************************************************************)
(* Properties of process_query                                             *)
(***************************************************************************)
\* process_query has handed a dict to its caller
QueryAnswered == request.op = "process_query" /\ response.kind = "returned"

\* the chain ran to the end and retrieved nothing
NothingRetrieved ==
    /\ QueryAnswered
    /\ backend.fault = None
    /\ Len(backend.result.source_documents) = 0

\* C21: when no retrieved context passes the threshold, the value returned to
\* the caller is not marked as an ordinary success: it carries a signal that
\* tells it apart from a successful answer with content.
C21_NoContextIsSignalled ==
    NothingRetrieved => response.results.status # "success"

\* C22: for every query, process_query returns a dict with the key "result"
\* and the key "source_documents".
C22_ResultAndSourceDocuments ==
    QueryAnswered =>
        /\ "result" \in DOMAIN response.results
        /\ "source_documents" \in DOMAIN response.results

\* process_query never raises; a failure of loading, of the retriever, of the
\* chain or of its invocation gives the error dict; otherwise the status is
\* "success" and at most SourceLimit sources are listed
QueryOutcome ==
    /\ request.op = "process_query" => response.kind = "returned"
    /\ QueryAnswered /\ backend.fault # None =>
          response.results = [result |-> Apology, sources |-> <<>>, status |-> "error"]
    /\ QueryAnswered /\ backend.fault = None =>
          /\ response.results.status = "success"
          /\ Len(response.results.sources) <= SourceLimit

C29_WitnessError ==
    /\ QueryAnswered
    /\ backend.fault = Some("invoke")
    /\ response.results.status = "error"

(***************************************************************************)
(* Properties of the extraction of the sample section                      *)
(***************************************************************************)
\* the section of the sample: "Marque: BOSCH", then "Référence: GSB120-LI", then
\* "Puissance: 120W"
SampleSection == SectionPool[1]

\* the extractor was given the sample section alone and no section raised
SampleExtracted ==
    /\ Extracted
    /\ request.text = SampleSection
    /\ backend.raising = {}

\* the category _categorize_characteristic gives to a power characteristic
PowerCategory == Some("puissance")

\* C23: extracting the sample section yields exactly one Product whose
\* brand.normalized_name is "BOSCH", whose normalized reference is "GSB120LI"
\* and which has at least one characteristic in the power category.
C23_SampleSectionProduct ==
    SampleExtracted =>
        /\ Len(response.results) = 1
        /\ response.results[1].brand.normalized_name = "BOSCH"
        /\ response.results[1].reference.normalized_reference = "GSB120LI"
        /\ \E k \in 1..Len(response.results[1].characteristics) :
              response.results[1].characteristics[k].category = PowerCategory

(***************************************************************************)
(* Properties of the brand confidence                                      *)
(***************************************************************************)
\* how many times each brand of a section's scan occurs in the section,
\* whatever the case
BrandOccurrences ==
    [section \in DOMAIN SectionScan |->
        [k \in 1..Len(SectionScan[section].brands) |->
            Len(FindIter(ReI(<<Lit(SectionScan[section].brands[k].name)>>), section))]]

\* the boost of a candidate that occurs n times: only the occurrences beyond
\* the first count
BoostBeyondFirst(brand, n) ==
    Min(500 + Min(100 * (n - 1), 300) + (IF IsUpperStr(brand) THEN 100 ELSE 0), One)

\* C24: the confidence of every brand candidate is the confidence_modifier of
\* a brand pattern times min(1.0, 0.5 + min(0.1*(n-1), 0.3) + 0.1 if the
\* candidate is fully uppercase), n being its number of occurrences in the
\* section; a candidate that occurs once and is not fully uppercase has boost 0.5.
C24_BrandBoostBeyondFirst ==
    Extracted =>
        \A s \in 1..Len(trace.sections) :
            \A k \in 1..Len(Scanned(trace.sections[s]).brands) :
                LET brand == Scanned(trace.sections[s]).brands[k]
                    n == BrandOccurrences[trace.sections[s]][k]
                IN  /\ n >= 1
                    /\ \E p \in 1..Len(brand_patterns) :
                          brand.confidence = Mul(brand_patterns[p].confidence_modifier,
                                                 BoostBeyondFirst(brand.name, n))

(***************************************************************************)
(* Properties of the lexical structures under concurrent calls             *)
(***************************************************************************)
\* the three lexical structures are those of one rebuild over the first n
\* stored documents
FromOneRebuild(n) ==
    /\ bm25_index = Some([corpus |-> [i \in 1..n |-> Tokenize(collection[i].document)]])
    /\ documents = [i \in 1..n |-> collection[i].document]
    /\ products = [i \in 1..n |-> StoredProduct(i)]

\* no rebuild has installed anything yet
NeverRebuilt == bm25_index = None /\ documents = <<>> /\ products = <<>>

\* C25: a search running concurrently with an add never observes a torn
\* lexical index: in every state a search can read, the ranking structure, the
\* document list and the product snapshots come from the same rebuild (the one
\* before the add or the one after it), with the same length and order.
C25_NoTornLexicalIndex ==
    NeverRebuilt \/ \E n \in 1..Len(collection) : FromOneRebuild(n)

\* C26: an add call whose insert fails raises VectorStoreError and leaves the
\* store and the lexical structures unchanged; an add call that returns leaves
\* the three lexical structures either rebuilt together over the whole store or
\* all as they were before the call (the rebuild failed), never a mix of the two.
C26_RebuildAllOrNothing ==
    [][(Idle /\ request'.op = "add") =>
          /\ response'.kind = "raised" =>
                /\ response'.exc = Some("VectorStoreError")
                /\ UNCHANGED <<collection, bm25_index, documents, products>>
          /\ (response'.kind = "returned" /\ Len(request'.products) > 0) =>
                \/ /\ bm25_index' = Some([corpus |-> [i \in 1..Len(collection') |->
                                                 Tokenize(collection'[i].document)]])
                   /\ documents' = [i \in 1..Len(collection') |-> collection'[i].document]
                   /\ products' = [i \in 1..Len(collection') |->
                                      _reconstruct_product_from_metadata(
                                          collection'[i].metadata, collection'[i].document)]
                \/ UNCHANGED <<bm25_index, documents, products>>]_vars

(***************************************************************************)
(* Properties of the readiness of the lexical index                        *)
(***************************************************************************)
\* the semantic results with their scores weighted, as a general search
\* returns them while there is no lexical index
WeightedSemantic(semantic) ==
    [i \in 1..Len(semantic) |->
        [product |-> semantic[i].product, score |-> Mul(semantic[i].score, SemanticWeight)]]

\* C27: the lexical index is absent right after construction, however many
\* documents the persistent store holds, and stats then reports it not ready;
\* while it is absent a general search returns exactly the semantic results with
\* scores multiplied by 0.7; it becomes ready only in an add call that returns
\* over a non-empty store; once ready no operation makes it absent again.
C27_LexicalReadiness ==
    /\ bm25_index = None
    /\ [][/\ (bm25_index # None) => (bm25_index' # None)
          /\ (bm25_index = None /\ bm25_index' # None) =>
                /\ request'.op = "add"
                /\ response'.kind = "returned"
                /\ Len(collection') > 0
          /\ (request'.op = "stats" /\ "bm25_enabled" \in DOMAIN response'.results) =>
                response'.results.bm25_enabled = (bm25_index' # None)
          /\ (request'.op = "search" /\ IsHybrid(request'.stage)
                 /\ backend'.fault = None /\ bm25_index' = None) =>
                /\ response'.kind = "returned"
                /\ response'.results = WeightedSemantic(trace'.semantic)]_vars

(***************************************************************************)
(* Properties of the PDF path                                              *)
(***************************************************************************)
PdfExtracted == request.op = "extract_from_pdf" /\ response.kind = "returned"

\* the only whitespace of the text is single spaces between other characters
SingleSpaced(text) ==
    \A i \in 1..Len(text) :
        IsSpace(Ch(text, i)) =>
            /\ Ch(text, i) = " "
            /\ 1 < i /\ i < Len(text)
            /\ ~IsSpace(Ch(text, i + 1))

\* C28: on the PDF path the preprocessing leaves no control character and no
\* whitespace run (newlines included) in the text, only single spaces, before
\* the text is split; the splitter then returns exactly one section and
\* extract_from_pdf returns at most one Product per PDF.
C28_PdfYieldsOneSection ==
    PdfExtracted =>
        /\ SingleSpaced(trace.cleaned_text)
        /\ Len(trace.sections) = 1
        /\ trace.sections[1] = trace.cleaned_text
        /\ Len(response.results) <= 1

\* a PDF of two pages, the first with two products around a separator line and
\* an explicit product mention, which the splitter would cut apart in the text
\* as read: one section, one product
C28_Witness ==
    /\ PdfExtracted
    /\ backend.pages = <<PagePool[2], PagePool[1]>>
    /\ backend.raising = {}
    /\ Len(trace.sections) = 1
    /\ Len(response.results) = 1
    /\ Len(_split_into_product_sections(_extract_text_from_pdf(backend.pages))) > 1

(***************************************************************************)
(* Properties of file validation                                           *)
(***************************************************************************)
\* a regular file within the size limit whose extension has a handler
HandledFile ==
    /\ request.op = "process_document"
    /\ backend.file.exists
    /\ backend.file.is_file
    /\ backend.file.size_mb <= max_file_size_mb
    /\ Lower(Suffix(request.file_path)) \in HandlerFormats

\* C30: every extension with a registered handler (.pdf, .xlsx, .xls, .json,
\* .xml, .txt) is accepted by file validation under the default configuration:
\* a regular file of such an extension within the size limit passes
\* _validate_file, and is processed to completion when it is readable and its
\* handler does not raise.
C30_HandlerFormatsAccepted ==
    HandledFile =>
        /\ _validate_file(backend.file).exc = None
        /\ (backend.file.readable /\ backend.fault = None) =>
              /\ response.kind = "returned"
              /\ response.results.processing_status = "completed"

====
